---- MODULE Spec2Model ----
(***************************************************************************)
(* Context-transfer subsystem of multimind-sdk-js (src/src/models.ts):     *)
(* ContextTransferManager (extraction, summaries, transcript parsers,      *)
(* target formatting) and ContextTransferAPI (transfer, batch, validate),  *)
(* and the command line built on them (ContextTransferCLI.parseArgs, run). *)
(*                                                                         *)
(* JavaScript strings are modelled as sequences of one-character strings,  *)
(* so that length, slicing, trimming, prefix and substring tests are       *)
(* computed, not assumed.  A message is a record with the two fields the   *)
(* code reads (role, content) and an id standing for the identity of the   *)
(* JavaScript object, which the code never reads.                          *)
(***************************************************************************)
EXTENDS Integers, Sequences, FiniteSets, TLC

\* ------------------------------------------------------------------------
\* Bounds of the model
\* ------------------------------------------------------------------------
MaxMessages == 4

MaxLastN == 5

MaxSummaryMessages == 2

MaxEntries == 2

MaxApiMessages == 2

MaxBatch == 3

\* Largest number of argument groups of a long command line
MaxArgGroups == 3

\* Largest number of calls issued on one MultiMindSDK
MaxSdkCalls == 3

\* Largest number of addMemory calls on one AdvancedAgent
MaxMemoryEntries == 2

\* Largest number of calls in progress on one ContextTransferAPI
MaxInterleavedCalls == 2

\* ------------------------------------------------------------------------
\* JavaScript values and built-ins used by the code
\* ------------------------------------------------------------------------
Min(a, b) == IF a < b THEN a ELSE b

Max(a, b) == IF a > b THEN a ELSE b

\* The value `undefined` where a string is expected (a missing content).
Undefined == <<"undefined">>

\* The outcome of evaluating code that may throw.
Ok(v) == [threw |-> FALSE, value |-> v]

Throw(type, msg) == [threw |-> TRUE, errorType |-> type, error |-> msg]

\* Array.prototype.slice(start, end) / String.prototype.slice, 0-based,
\* negative indices counted from the end; -0 is 0.
Slice(s, start, end) ==
  LET n == Len(s)
      from == IF start < 0 THEN Max(n + start, 0) ELSE Min(start, n)
      to == IF end < 0 THEN Max(n + end, 0) ELSE Min(end, n)
  IN IF from >= to THEN <<>> ELSE SubSeq(s, from + 1, to)

\* Array.prototype.slice(start)
SliceFrom(s, start) == Slice(s, start, Len(s))

UpperCase == <<"A", "B", "C", "D", "E", "F", "G", "H", "I", "J", "K", "L", "M",
    "N", "O", "P", "Q", "R", "S", "T", "U", "V", "W", "X", "Y", "Z">>

LowerCase == <<"a", "b", "c", "d", "e", "f", "g", "h", "i", "j", "k", "l", "m",
    "n", "o", "p", "q", "r", "s", "t", "u", "v", "w", "x", "y", "z">>

\* String.prototype.toLowerCase
ToLowerCase(s) ==
  [k \in 1..Len(s) |->
     IF \E u \in 1..Len(UpperCase) : UpperCase[u] = s[k]
     THEN LowerCase[CHOOSE u \in 1..Len(UpperCase) : UpperCase[u] = s[k]]
     ELSE s[k]]

\* String.prototype.startsWith
StartsWith(s, p) == Len(p) <= Len(s) /\ SubSeq(s, 1, Len(p)) = p

\* String.prototype.includes
Includes(s, p) ==
  \E k \in 0..(Len(s) - Len(p)) : SubSeq(s, k + 1, k + Len(p)) = p

WhiteSpace == {" ", "\n", "\t", "\r"}

\* Index of the first character at or after k that is no white space
RECURSIVE SkipForward(_, _)
SkipForward(s, k) ==
  IF k > Len(s) \/ s[k] \notin WhiteSpace THEN k ELSE SkipForward(s, k + 1)

\* Index of the last character at or before k that is no white space
RECURSIVE SkipBackward(_, _)
SkipBackward(s, k) ==
  IF k < 1 \/ s[k] \notin WhiteSpace THEN k ELSE SkipBackward(s, k - 1)

\* String.prototype.trim
Trim(s) == SubSeq(s, SkipForward(s, 1), SkipBackward(s, Len(s)))

\* Array.prototype.join
RECURSIVE Join(_, _)
Join(parts, sep) ==
  IF Len(parts) = 0 THEN <<>>
  ELSE IF Len(parts) = 1 THEN parts[1]
  ELSE parts[1] \o sep \o Join(Tail(parts), sep)

\* String.prototype.split(sep) for a one-character separator: the pieces
\* between consecutive separators, the ends of the string included
Split(s, sep) ==
  LET seps == {k \in 1..Len(s) : s[k] = sep}
      n == Cardinality(seps)
      Position(j) ==
        IF j = 0 THEN 0
        ELSE IF j = n + 1 THEN Len(s) + 1
        ELSE CHOOSE k \in seps : Cardinality({h \in seps : h < k}) = j - 1
  IN [j \in 1..(n + 1) |-> SubSeq(s, Position(j - 1) + 1, Position(j) - 1)]

Digits == <<"0", "1", "2", "3", "4", "5", "6", "7", "8", "9">>

\* Number to string conversion of a template literal, for naturals
RECURSIVE NumberToString(_)
NumberToString(n) ==
  IF n < 10 THEN <<Digits[n + 1]>>
  ELSE NumberToString(n \div 10) \o <<Digits[(n % 10) + 1]>>

\* Template-literal conversion of a content that may be undefined
STR_undefined == <<"u", "n", "d", "e", "f", "i", "n", "e", "d">>

TemplateString(v) == IF v = Undefined THEN STR_undefined ELSE v

\* A string of n copies of one character
Repeat(c, n) == [k \in 1..n |-> c]

\* The three roles of ConversationMessage
Roles == {"user", "assistant", "system"}

\* ------------------------------------------------------------------------
\* ContextTransferManager: context extraction
\* ------------------------------------------------------------------------
importantKeywords ==
  {<<"s", "y", "s", "t", "e", "m">>,
   <<"s", "e", "t", "u", "p">>,
   <<"c", "o", "n", "f", "i", "g", "u", "r", "a", "t", "i", "o", "n">>,
   <<"r", "e", "q", "u", "i", "r", "e", "m", "e", "n", "t", "s">>,
   <<"c", "o", "n", "s", "t", "r", "a", "i", "n", "t", "s">>,
   <<"i", "m", "p", "o", "r", "t", "a", "n", "t">>,
   <<"n", "o", "t", "e">>,
   <<"w", "a", "r", "n", "i", "n", "g">>,
   <<"e", "r", "r", "o", "r">>,
   <<"c", "r", "i", "t", "i", "c", "a", "l">>,
   <<"e", "s", "s", "e", "n", "t", "i", "a", "l">>}

\* isImportantContext(content); content.toLowerCase() throws on undefined.
isImportantContext(content) ==
  \E keyword \in importantKeywords : Includes(ToLowerCase(content), keyword)

isImportantContextThrows(content) == content = Undefined

\* The test of the loop with every message taken for important
IsImportantMessage_always(msg) == TRUE

\* The test of the loop of smartExtractContext; || short-circuits, so a
\* system message is never handed to isImportantContext.
IsImportantMessage(msg) == msg.role = "system" \/ isImportantContext(msg.content)

\* smartExtractContext with the loop run over all messages instead of the
\* messages before the recent ones
smartExtractContext_scanAll(messages, lastN) ==
  IF Len(messages) <= lastN THEN Ok(messages)
  ELSE
    LET recentMessages == SliceFrom(messages, -lastN)
        importantContext == SelectSeq(messages, IsImportantMessage)
        contextToInclude == SliceFrom(importantContext, -2)
        combined == contextToInclude
                      \o SliceFrom(recentMessages, -(lastN - Len(contextToInclude)))
    IN IF Len(importantContext) > 0 THEN Ok(combined) ELSE Ok(recentMessages)

smartExtractContext(messages, lastN) ==
  IF Len(messages) <= lastN THEN Ok(messages)
  ELSE
    LET recentMessages == SliceFrom(messages, -lastN)
        earlier == Slice(messages, 0, -lastN)
        importantContext == SelectSeq(earlier, IsImportantMessage)
        contextToInclude == SliceFrom(importantContext, -2)
        combined == contextToInclude
                      \o SliceFrom(recentMessages, -(lastN - Len(contextToInclude)))
    IN IF \E k \in 1..Len(earlier) :
            earlier[k].role # "system" /\ isImportantContextThrows(earlier[k].content)
       THEN Throw("TypeError", "Cannot read properties of undefined (reading 'toLowerCase')")
       ELSE IF Len(importantContext) > 0 THEN Ok(combined)
       ELSE Ok(recentMessages)

extractContext(messages, lastN, smartExtraction) ==
  IF Len(messages) = 0 THEN Ok(<<>>)
  ELSE IF smartExtraction THEN smartExtractContext(messages, lastN)
  ELSE LET extractedCount == Min(lastN, Len(messages))
       IN Ok(SliceFrom(messages, -extractedCount))

\* ------------------------------------------------------------------------
\* ContextTransferManager: summaries
\* ------------------------------------------------------------------------
STR_NoContext == <<"N", "o", " ", "c", "o", "n", "v", "e", "r", "s", "a", "t", "i", "o", "n",
    " ", "c", "o", "n", "t", "e", "x", "t", " ", "a", "v", "a", "i", "l", "a", "b", "l", "e",
    ".">>

STR_Ellipsis == <<".", ".", ".">>

STR_UserColon == <<"U", "s", "e", "r", ":", " ">>

STR_AssistantColon == <<"A", "s", "s", "i", "s", "t", "a", "n", "t", ":", " ">>

STR_SystemColon == <<"S", "y", "s", "t", "e", "m", ":", " ">>

STR_UserMessage == <<"U", "s", "e", "r", " ", "(", "M", "e", "s", "s", "a", "g", "e", " ">>

STR_AssistantResponse == <<"A", "s", "s", "i", "s", "t", "a", "n", "t", " ", "(", "R", "e", "s",
    "p", "o", "n", "s", "e", " ">>

STR_CloseColon == <<")", ":", " ">>

STR_SystemConfiguration == <<"S", "y", "s", "t", "e", "m", " ", "C", "o", "n", "f", "i", "g",
    "u", "r", "a", "t", "i", "o", "n", ":", " ">>

STR_SystemContext == <<"S", "y", "s", "t", "e", "m", " ", "C", "o", "n", "t", "e", "x", "t", ":">>

STR_Bullet == <<"-", " ">>

STR_ConversationFlow == <<"C", "o", "n", "v", "e", "r", "s", "a", "t", "i", "o", "n", " ", "F",
    "l", "o", "w", ":">>

\* Content longer than this is cut by the concise summary.
ConciseLimit == 500

\* Array.prototype.push(...) of several arrays of parts, in order
RECURSIVE Flatten(_)
Flatten(ss) == IF Len(ss) = 0 THEN <<>> ELSE ss[1] \o Flatten(Tail(ss))

\* ConciseContent cutting one character too late
ConciseContent_offByOne(message) ==
  IF Len(message.content) > ConciseLimit
  THEN Slice(message.content, 0, ConciseLimit + 1) \o STR_Ellipsis
  ELSE message.content

\* The local `content` of createConciseSummary after the length test
ConciseContent(message) ==
  IF Len(message.content) > ConciseLimit
  THEN Slice(message.content, 0, ConciseLimit) \o STR_Ellipsis
  ELSE message.content

\* The parts createConciseSummary pushes for one message (switch on role)
ConciseParts(message) ==
  CASE message.role = "user" -> <<STR_UserColon \o ConciseContent(message)>>
    [] message.role = "assistant" -> <<STR_AssistantColon \o ConciseContent(message)>>
    [] message.role = "system" -> <<STR_SystemColon \o ConciseContent(message)>>
    [] OTHER -> <<>>

createConciseSummary(messages) ==
  IF \E k \in 1..Len(messages) : messages[k].content = Undefined
  THEN Throw("TypeError", "Cannot read properties of undefined (reading 'length')")
  ELSE Ok(Join(Flatten([k \in 1..Len(messages) |-> ConciseParts(messages[k])]),
               <<"\n">>))

\* The parts createDetailedSummary pushes for messages[i - 1] (i is i + 1 of the code)
DetailedParts(message, i) ==
  CASE message.role = "user" ->
         <<STR_UserMessage \o NumberToString(i) \o STR_CloseColon
             \o TemplateString(message.content)>>
    [] message.role = "assistant" ->
         <<STR_AssistantResponse \o NumberToString(i) \o STR_CloseColon
             \o TemplateString(message.content)>>
    [] message.role = "system" ->
         <<STR_SystemConfiguration \o TemplateString(message.content)>>
    [] OTHER -> <<>>

createDetailedSummary(messages) ==
  Ok(Join(Flatten([k \in 1..Len(messages) |-> DetailedParts(messages[k], k)]),
          <<"\n", "\n">>))

\* The three per-role lists of createStructuredSummary
ContentsOfRole(messages, role) ==
  LET HasRole(m) == m.role = role
      selected == SelectSeq(messages, HasRole)
  IN [k \in 1..Len(selected) |-> selected[k].content]

\* StructuredParts pushing the system block without testing systemMessages.length
StructuredParts_alwaysSystem(messages) ==
  LET userMessages == ContentsOfRole(messages, "user")
      assistantMessages == ContentsOfRole(messages, "assistant")
      systemMessages == ContentsOfRole(messages, "system")
      systemBlock ==
        <<STR_SystemContext>>
          \o [k \in 1..Len(systemMessages) |->
                STR_Bullet \o TemplateString(systemMessages[k])]
          \o << <<>> >>
      flow ==
        Flatten([i \in 1..Max(Len(userMessages), Len(assistantMessages)) |->
          (IF i <= Len(userMessages)
           THEN <<STR_UserColon \o TemplateString(userMessages[i])>> ELSE <<>>)
          \o (IF i <= Len(assistantMessages)
              THEN <<STR_AssistantColon \o TemplateString(assistantMessages[i])>>
              ELSE <<>>)
          \o << <<>> >>])
  IN systemBlock \o <<STR_ConversationFlow>> \o flow

\* summaryParts of createStructuredSummary before the join
StructuredParts(messages) ==
  LET userMessages == ContentsOfRole(messages, "user")
      assistantMessages == ContentsOfRole(messages, "assistant")
      systemMessages == ContentsOfRole(messages, "system")
      systemBlock ==
        IF Len(systemMessages) > 0
        THEN <<STR_SystemContext>>
               \o [k \in 1..Len(systemMessages) |->
                     STR_Bullet \o TemplateString(systemMessages[k])]
               \o << <<>> >>
        ELSE <<>>
      flow ==
        Flatten([i \in 1..Max(Len(userMessages), Len(assistantMessages)) |->
          (IF i <= Len(userMessages)
           THEN <<STR_UserColon \o TemplateString(userMessages[i])>> ELSE <<>>)
          \o (IF i <= Len(assistantMessages)
              THEN <<STR_AssistantColon \o TemplateString(assistantMessages[i])>>
              ELSE <<>>)
          \o << <<>> >>])
  IN systemBlock \o <<STR_ConversationFlow>> \o flow

createStructuredSummary(messages) ==
  Ok(Trim(Join(StructuredParts(messages), <<"\n">>)))

\* summarizeContext without the test for an empty list
summarizeContext_noEmptyTest(messages, summaryType) ==
  CASE summaryType = "structured" -> createStructuredSummary(messages)
    [] summaryType = "detailed" -> createDetailedSummary(messages)
    [] OTHER -> createConciseSummary(messages)

summarizeContext(messages, summaryType) ==
  IF Len(messages) = 0 THEN Ok(STR_NoContext)
  ELSE CASE summaryType = "structured" -> createStructuredSummary(messages)
         [] summaryType = "detailed" -> createDetailedSummary(messages)
         [] OTHER -> createConciseSummary(messages)

\* ------------------------------------------------------------------------
\* ContextTransferManager: transcript parsers
\* ------------------------------------------------------------------------
PFX_User == <<"U", "s", "e", "r", ":">>

PFX_Assistant == <<"A", "s", "s", "i", "s", "t", "a", "n", "t", ":">>

PFX_System == <<"S", "y", "s", "t", "e", "m", ":">>

PFX_MdUser == <<"#", "#", "#", " ", "U", "s", "e", "r", ":">>

PFX_MdAssistant == <<"#", "#", "#", " ", "A", "s", "s", "i", "s", "t", "a", "n", "t", ":">>

PFX_MdSystem == <<"#", "#", "#", " ", "S", "y", "s", "t", "e", "m", ":">>

EXT_json == <<"j", "s", "o", "n">>

EXT_md == <<"m", "d">>

EXT_markdown == <<"m", "a", "r", "k", "d", "o", "w", "n">>

EXT_txt == <<"t", "x", "t">>

EXT_MD == <<"M", "D">>

EXT_log == <<"l", "o", "g">>

CT_hello == <<"h", "e", "l", "l", "o">>

CT_hiThere == <<"h", "i", " ", "t", "h", "e", "r", "e">>

CT_more == <<"m", "o", "r", "e">>


\* detectFileFormat, on the text after the last dot of the path
detectFileFormat(extension) ==
  IF ToLowerCase(extension) = EXT_json THEN "json"
  ELSE IF ToLowerCase(extension) \in {EXT_md, EXT_markdown} THEN "markdown"
  ELSE "txt"

\* The line prefixes of the two line-oriented formats, with the role each sets
Prefixes(format) ==
  IF format = "markdown"
  THEN {<<PFX_MdUser, "user">>, <<PFX_MdAssistant, "assistant">>, <<PFX_MdSystem, "system">>}
  ELSE {<<PFX_User, "user">>, <<PFX_Assistant, "assistant">>, <<PFX_System, "system">>}

IsPrefixLine(format, line) == \E p \in Prefixes(format) : StartsWith(line, p[1])

\* The if/else-if chain that sets currentRole on a prefix line
RoleOfLine(format, line) ==
  (CHOOSE p \in Prefixes(format) : StartsWith(line, p[1]))[2]

\* String.prototype.split(sep, limit): at most limit pieces are returned
SplitLimit(s, sep, limit) == Slice(Split(s, sep), 0, limit)

\* array[i], 0-based; undefined past the end
ArrayAt(a, i) == IF i < Len(a) THEN a[i + 1] ELSE Undefined

\* line.split(':', 1)[1]?.trim() || ''
PrefixLineText(line) ==
  LET piece == ArrayAt(SplitLimit(line, ":", 1), 1)
  IN IF piece = Undefined THEN <<>> ELSE Trim(piece)

\* The lines the parser iterates over: the text parser trims the file
\* content before splitting, the markdown parser does not.
FileLines(format, content) ==
  IF format = "markdown" THEN Split(content, "\n") ELSE Split(Trim(content), "\n")

\* The message pushed when a role is set and content has been collected
FlushedMessage(role, contentLines) ==
  [role |-> role, content |-> Trim(Join(contentLines, <<"\n">>))]

\* ------------------------------------------------------------------------
\* ContextTransferManager: formatting for the target model, model info
\* ------------------------------------------------------------------------
GEN_YouAre == <<"Y", "o", "u", " ", "a", "r", "e", " ">>

GEN_AnAssistant == <<",", " ", "a", "n", " ", "A", "I", " ", "a", "s", "s", "i", "s", "t", "a",
    "n", "t", ".", "\n", "\n", "A", " ", "u", "s", "e", "r", " ", "w", "a", "s", " ", "p", "r",
    "e", "v", "i", "o", "u", "s", "l", "y", " ", "w", "o", "r", "k", "i", "n", "g", " ", "w",
    "i", "t", "h", " ">>

GEN_OnConversation == <<" ", "o", "n", " ", "t", "h", "e", " ", "f", "o", "l", "l", "o", "w",
    "i", "n", "g", " ", "c", "o", "n", "v", "e", "r", "s", "a", "t", "i", "o", "n", ":", "\n",
    "\n">>

GEN_Continue == <<"\n", "\n", "P", "l", "e", "a", "s", "e", " ", "c", "o", "n", "t", "i", "n",
    "u", "e", " ", "h", "e", "l", "p", "i", "n", "g", " ", "t", "h", "e", " ", "u", "s", "e",
    "r", " ", "f", "r", "o", "m", " ", "w", "h", "e", "r", "e", " ", "t", "h", "e", "y", " ",
    "l", "e", "f", "t", " ", "o", "f", "f", ".", " ", "M", "a", "i", "n", "t", "a", "i", "n",
    " ", "t", "h", "e", " ", "c", "o", "n", "t", "e", "x", "t", " ", "a", "n", "d", " ", "p",
    "r", "o", "v", "i", "d", "e", " ", "h", "e", "l", "p", "f", "u", "l", " ", "r", "e", "s",
    "p", "o", "n", "s", "e", "s", ".">>

GEN_FooterFrom == <<"\n", "\n", "-", "-", "-", "\n", "C", "o", "n", "t", "e", "x", "t", " ", "t",
    "r", "a", "n", "s", "f", "e", "r", "r", "e", "d", " ", "f", "r", "o", "m", " ">>

GEN_FooterTo == <<" ", "t", "o", " ">>

GEN_FooterSdk == <<" ", "u", "s", "i", "n", "g", " ", "M", "u", "l", "t", "i", "M", "i", "n",
    "d", " ", "S", "D", "K">>

KEY_IncludeUnderscore == <<"i", "n", "c", "l", "u", "d", "e", "_">>

MODEL_chatgpt == <<"c", "h", "a", "t", "g", "p", "t">>

MODEL_Claude3 == <<"C", "l", "a", "u", "d", "e", "-", "3">>

MODEL_MyModel == <<"M", "y", " ", "M", "o", "d", "e", "l">>

ADAPTER_Tag == <<"[", "a", "d", "a", "p", "t", "e", "r", "]", " ">>


\* targetModel.toLowerCase().replace(/[ -]/g, "_"), the name handed to getAdapter
NormalizeModelName(targetModel) ==
  [k \in 1..Len(targetModel) |->
     IF targetModel[k] \in {" ", "-"} THEN "_" ELSE ToLowerCase(<<targetModel[k]>>)[1]]

\* An object read as options: the keys holding a value, as a function. A key
\* that is absent or holds undefined is not in its domain.
HasValue(options, key) == key \in DOMAIN options

\* options.include_metadata ?? this.config.includeMetadata; the manager of a
\* ContextTransferAPI is constructed without a config, so the latter is true.
ConfigIncludeMetadata == TRUE

formatGeneric(summary, sourceModel, targetModel, options) ==
  LET includeMetadata ==
        IF HasValue(options, "include_metadata") THEN options["include_metadata"]
        ELSE ConfigIncludeMetadata
      prompt == GEN_YouAre \o targetModel \o GEN_AnAssistant \o sourceModel
                  \o GEN_OnConversation \o summary \o GEN_Continue
  IN IF includeMetadata
     THEN prompt \o GEN_FooterFrom \o sourceModel \o GEN_FooterTo \o targetModel
            \o GEN_FooterSdk
     ELSE prompt

\* What the remote side can answer to AdapterFactory.get_adapter and to the
\* call of formatContext on its answer:
\*   "notFound"      the bridge call is rejected, getAdapter throws
\*   "formatThrows"  an adapter is returned, calling formatContext throws
\*   "formatted"     formatContext returns a prompt
\*   "formatRejects" formatContext returns a promise that is rejected
AdapterOutcomes == {"notFound", "formatThrows", "formatted", "formatRejects"}

\* The prompt of a remote adapter: text owned by the remote side, built from
\* the summary it was given
AdapterPrompt(summary, sourceModel, options) == ADAPTER_Tag \o summary

\* The arguments of adapter.formatContext(summary, sourceModel, options) in
\* the try block of formatForTargetModel; <<>> when no adapter was returned
\* and the call is not made
FormatContextCall(summary, sourceModel, options, outcome) ==
  IF outcome = "notFound" THEN <<>>
  ELSE [summary |-> summary, sourceModel |-> sourceModel, options |-> options]

\* formatForTargetModel without the fallback: a failed lookup is rethrown
formatForTargetModel_noFallback(targetModel, summary, sourceModel, options, outcome) ==
  CASE outcome = "formatted" -> Ok(AdapterPrompt(summary, sourceModel, options))
    [] outcome = "formatRejects" -> Throw("Error", "adapter failed to format the context")
    [] outcome = "notFound" -> Throw("Error", "Model not supported")
    [] OTHER -> Ok(formatGeneric(summary, sourceModel, targetModel, options))

\* formatForTargetModel once the remote side has answered. The try block
\* returns the value of formatContext without awaiting it, so a rejected
\* promise is not caught there and rejects formatForTargetModel.
formatForTargetModel(targetModel, summary, sourceModel, options, outcome) ==
  CASE outcome = "formatted" -> Ok(AdapterPrompt(summary, sourceModel, options))
    [] outcome = "formatRejects" -> Throw("Error", "adapter failed to format the context")
    [] OTHER -> Ok(formatGeneric(summary, sourceModel, targetModel, options))

\* The record getModelInfo returns when the capability lookup is rejected
DefaultMaxContextLength == 8000

DefaultCapabilities(modelName) ==
  [name |-> modelName, supportedFormats |-> <<"text">>,
   maxContextLength |-> DefaultMaxContextLength, supportsCode |-> TRUE,
   supportsImages |-> FALSE, supportsTools |-> FALSE]

\* A record answered by the remote AdapterFactory.get_model_capabilities
RemoteCapabilities(modelName) ==
  [name |-> modelName, supportedFormats |-> <<"text", "code">>,
   maxContextLength |-> 128000, supportsCode |-> TRUE,
   supportsImages |-> TRUE, supportsTools |-> TRUE]

InfoOutcomes == {"answered", "rejected"}

\* getModelInfo without its catch block standing in for a rejected lookup:
\* the record is the remote one whatever the lookup did
getModelInfo_noDefault(modelName, outcome) == RemoteCapabilities(modelName)

getModelInfo(modelName, outcome) ==
  IF outcome = "answered" THEN RemoteCapabilities(modelName)
  ELSE DefaultCapabilities(modelName)

\* ------------------------------------------------------------------------
\* ContextTransferAPI: transferContextAPI
\* ------------------------------------------------------------------------
DefaultLastN == 5

defaultOptions ==
  [lastN |-> DefaultLastN, includeSummary |-> TRUE, summaryType |-> "concise",
   smartExtraction |-> TRUE, outputFormat |-> "txt", includeMetadata |-> TRUE,
   includeCodeContext |-> FALSE, includeReasoning |-> FALSE, includeSafety |-> FALSE,
   includeCreativity |-> FALSE, includeExamples |-> FALSE, includeStepByStep |-> FALSE,
   includeMultimodal |-> FALSE, includeWebSearch |-> FALSE]

OptionKeys == DOMAIN defaultOptions \cup {"include_metadata"}

\* The characters of the option keys, for the key test of formattingOptions
OptionKeyChars ==
  [k \in OptionKeys |->
     CASE k = "lastN" -> <<"l", "a", "s", "t", "N">>
       [] k = "includeSummary" -> <<"i", "n", "c", "l", "u", "d", "e", "S", "u", "m", "m", "a", "r", "y">>
       [] k = "summaryType" -> <<"s", "u", "m", "m", "a", "r", "y", "T", "y", "p", "e">>
       [] k = "smartExtraction" -> <<"s", "m", "a", "r", "t", "E", "x", "t", "r", "a", "c", "t", "i", "o", "n">>
       [] k = "outputFormat" -> <<"o", "u", "t", "p", "u", "t", "F", "o", "r", "m", "a", "t">>
       [] k = "includeMetadata" -> <<"i", "n", "c", "l", "u", "d", "e", "M", "e", "t", "a", "d", "a", "t", "a">>
       [] k = "includeCodeContext" -> <<"i", "n", "c", "l", "u", "d", "e", "C", "o", "d", "e", "C", "o", "n", "t", "e", "x", "t">>
       [] k = "includeReasoning" -> <<"i", "n", "c", "l", "u", "d", "e", "R", "e", "a", "s", "o", "n", "i", "n", "g">>
       [] k = "includeSafety" -> <<"i", "n", "c", "l", "u", "d", "e", "S", "a", "f", "e", "t", "y">>
       [] k = "includeCreativity" -> <<"i", "n", "c", "l", "u", "d", "e", "C", "r", "e", "a", "t", "i", "v", "i", "t", "y">>
       [] k = "includeExamples" -> <<"i", "n", "c", "l", "u", "d", "e", "E", "x", "a", "m", "p", "l", "e", "s">>
       [] k = "includeStepByStep" -> <<"i", "n", "c", "l", "u", "d", "e", "S", "t", "e", "p", "B", "y", "S", "t", "e", "p">>
       [] k = "includeMultimodal" -> <<"i", "n", "c", "l", "u", "d", "e", "M", "u", "l", "t", "i", "m", "o", "d", "a", "l">>
       [] k = "includeWebSearch" -> <<"i", "n", "c", "l", "u", "d", "e", "W", "e", "b", "S", "e", "a", "r", "c", "h">>
       [] k = "include_metadata" -> <<"i", "n", "c", "l", "u", "d", "e", "_", "m", "e", "t", "a", "d", "a", "t", "a">>]

\* The options argument: `set` holds the keys given a value, `undef` the
\* keys present with the value undefined. { ...defaultOptions, ...options }
\* copies every own key of options, an undefined value included.
finalOptionsOf(options) ==
  LET keys == (DOMAIN defaultOptions \cup DOMAIN options.set) \ options.undef
  IN [k \in keys |-> IF k \in DOMAIN options.set THEN options.set[k]
                     ELSE defaultOptions[k]]

\* A parameter with a default value: undefined selects the default
DefaultParam(options, key, default) ==
  IF HasValue(options, key) THEN options[key] ELSE default

\* if (options.key) for a boolean option: undefined is falsy
Truthy(options, key) == HasValue(options, key) /\ options[key]

\* Object.fromEntries(Object.entries(finalOptions).filter(([key]) =>
\*   key.startsWith('include_') && key !== 'includeMetadata'))
formattingOptionsOf(finalOptions) ==
  LET keys == {k \in DOMAIN finalOptions :
                 StartsWith(OptionKeyChars[k], KEY_IncludeUnderscore)
                   /\ k # "includeMetadata"}
  IN [k \in keys |-> finalOptions[k]]

\* conversationData as the caller passes it: kind tells its JavaScript shape
\*   "string"  a path; "array" an array of messages; "messagesKey" and
\*   "conversationKey" an object holding the array under that key; "object"
\*   any other object (items holds that object read as a message); "null";
\*   "undefined"
processConversationData(data) ==
  CASE data.kind = "string" ->
         Throw("Error", "File path processing not implemented in this demo")
    [] data.kind \in {"array", "messagesKey", "conversationKey", "object"} ->
         Ok(data.items)
    [] data.kind = "null" ->
         Throw("TypeError", "Cannot read properties of null (reading 'messages')")
    [] OTHER -> Throw("Error", "Unsupported data type: undefined")

\* The result of the catch block of transferContextAPI
TransferFailure(exception) ==
  [success |-> FALSE, error |-> exception.error, errorType |-> exception.errorType]

\* transferContextAPI without its try/catch: the exception leaves the call
transferCatch_rethrow(outcome) == outcome

\* The try/catch of transferContextAPI: an exception of the try block
\* becomes the returned failure result
transferCatch(outcome) ==
  IF outcome.threw THEN Ok(TransferFailure(outcome)) ELSE outcome

\* new Date().toISOString(); the clock is outside the model
Now == "now"

\* transferContextAPI up to the await of the adapter lookup: either the call
\* is suspended there with its locals, or a statement threw.
TransferBegin(sourceModel, targetModel, conversationData, options) ==
  LET finalOptions == finalOptionsOf(options)
      processed == processConversationData(conversationData)
      extraction == extractContext(processed.value,
                                   DefaultParam(finalOptions, "lastN", DefaultLastN),
                                   DefaultParam(finalOptions, "smartExtraction", TRUE))
      summarization ==
        IF Truthy(finalOptions, "includeSummary")
        THEN summarizeContext(extraction.value,
                              DefaultParam(finalOptions, "summaryType", "concise"))
        ELSE summarizeContext(SliceFrom(extraction.value, -1), "concise")
  IN IF processed.threw THEN processed
     ELSE IF extraction.threw THEN extraction
     ELSE IF summarization.threw THEN summarization
     ELSE Ok([sourceModel |-> sourceModel,
              targetModel |-> targetModel,
              finalOptions |-> finalOptions,
              messages |-> processed.value,
              extractedMessages |-> extraction.value,
              summary |-> summarization.value,
              formattingOptions |-> formattingOptionsOf(finalOptions),
              adapterName |-> NormalizeModelName(targetModel)])

\* The values of finalOptions reported in metadata; an undefined value
\* leaves the key without a value.
ReportedOptions(finalOptions) ==
  [k \in {"summaryType", "smartExtraction", "outputFormat"} \cap DOMAIN finalOptions |->
     finalOptions[k]]

\* s1 with the keys of s2 added or overwritten: { ...s1, ...s2 }
Spread(s1, s2) ==
  [k \in DOMAIN s1 \cup DOMAIN s2 |-> IF k \in DOMAIN s2 THEN s2[k] ELSE s1[k]]

\* The response object built once formatForTargetModel has returned
TransferResponse(locals, formattedPrompt) ==
  [success |-> TRUE,
   formattedPrompt |-> formattedPrompt,
   metadata |->
     Spread([sourceModel |-> locals.sourceModel,
             targetModel |-> locals.targetModel,
             messagesProcessed |-> Len(locals.messages),
             messagesExtracted |-> Len(locals.extractedMessages),
             promptLength |-> Len(formattedPrompt),
             createdAt |-> Now],
            ReportedOptions(locals.finalOptions))]

\* response.metadata.modelCapabilities = { source: ..., target: ... }
WithCapabilities(response, source, target) ==
  [response EXCEPT !.metadata =
     Spread(response.metadata,
            [modelCapabilities |-> [source |-> source, target |-> target]])]

\* ------------------------------------------------------------------------
\* ContextTransferAPI: validateConversationFormat, batchTransfer
\* ------------------------------------------------------------------------

LongAverage == 1000

LargeConversation == 20

\* Sum of content.length over the messages
RECURSIVE TotalLength(_)
TotalLength(messages) ==
  IF Len(messages) = 0 THEN 0
  ELSE Len(messages[1].content) + TotalLength(Tail(messages))

CountRole(messages, roles) ==
  Cardinality({k \in 1..Len(messages) : messages[k].role \in roles})

\* Analysis with a switch that has no default branch: a role outside the
\* three is not counted
Analysis_unknownDropped(messages) ==
  [totalMessages |-> Len(messages),
   userMessages |-> CountRole(messages, {"user"}),
   assistantMessages |-> CountRole(messages, {"assistant"}),
   systemMessages |-> CountRole(messages, {"system"}),
   unknownMessages |-> 0,
   averageMessageLength |->
     IF Len(messages) > 0
     THEN [numerator |-> TotalLength(messages), denominator |-> Len(messages)]
     ELSE [numerator |-> 0, denominator |-> 1],
   hasSystemContext |-> CountRole(messages, {"system"}) > 0]

\* The analysis object after the loop. averageMessageLength is the quotient
\* totalLength / totalMessages, kept as the pair of the two integers; it
\* stays 0 when there is no message.
Analysis(messages) ==
  [totalMessages |-> Len(messages),
   userMessages |-> CountRole(messages, {"user"}),
   assistantMessages |-> CountRole(messages, {"assistant"}),
   systemMessages |-> CountRole(messages, {"system"}),
   unknownMessages |->
     Cardinality({k \in 1..Len(messages) : messages[k].role \notin Roles}),
   averageMessageLength |->
     IF Len(messages) > 0
     THEN [numerator |-> TotalLength(messages), denominator |-> Len(messages)]
     ELSE [numerator |-> 0, denominator |-> 1],
   hasSystemContext |-> CountRole(messages, {"system"}) > 0]

generateRecommendations(analysis) ==
  (IF analysis.totalMessages = 0
   THEN << <<"N", "o", " ", "m", "e", "s", "s", "a", "g", "e", "s", " ", "f", "o", "u",
          "n", "d", " ", "i", "n", " ", "c", "o", "n", "v", "e", "r", "s", "a", "t", "i", "o", "n",
          " ", "d", "a", "t", "a">> >>
   ELSE <<>>)
  \o (IF analysis.userMessages = 0
      THEN << <<"N", "o", " ", "u", "s", "e", "r", " ", "m", "e", "s", "s", "a", "g", "e", "s",
             " ", "f", "o", "u", "n", "d", " ", "-", " ", "e", "n", "s", "u", "r", "e", " ", "c", "o",
             "n", "v", "e", "r", "s", "a", "t", "i", "o", "n", " ", "h", "a", "s", " ", "u", "s", "e",
             "r", " ", "i", "n", "p", "u", "t">> >>
      ELSE <<>>)
  \o (IF analysis.assistantMessages = 0
      THEN << <<"N", "o", " ", "a", "s", "s", "i", "s", "t", "a", "n", "t", " ", "m", "e",
             "s", "s", "a", "g", "e", "s", " ", "f", "o", "u", "n", "d", " ", "-", " ", "e", "n", "s",
             "u", "r", "e", " ", "c", "o", "n", "v", "e", "r", "s", "a", "t", "i", "o", "n", " ", "h",
             "a", "s", " ", "A", "I", " ", "r", "e", "s", "p", "o", "n", "s", "e", "s">> >>
      ELSE <<>>)
  \o (IF analysis.unknownMessages > 0
      THEN << <<"F", "o", "u", "n", "d", " ">>
                \o NumberToString(analysis.unknownMessages)
                \o <<" ", "m", "e", "s", "s", "a", "g", "e", "s", " ", "w", "i", "t", "h", " ",
                   "u", "n", "k", "n", "o", "w", "n", " ", "r", "o", "l", "e", "s">> >>
      ELSE <<>>)
  \o (IF analysis.averageMessageLength.numerator
           > LongAverage * analysis.averageMessageLength.denominator
      THEN << <<"L", "o", "n", "g", " ", "m", "e", "s", "s", "a", "g", "e", "s", " ", "d", "e",
             "t", "e", "c", "t", "e", "d", " ", "-", " ", "c", "o", "n", "s", "i", "d", "e", "r", " ",
             "u", "s", "i", "n", "g", " ", "s", "m", "a", "r", "t", " ", "e", "x", "t", "r", "a", "c",
             "t", "i", "o", "n">> >>
      ELSE <<>>)
  \o (IF analysis.totalMessages > LargeConversation
      THEN << <<"L", "a", "r", "g", "e", " ", "c", "o", "n", "v", "e", "r", "s", "a", "t", "i",
             "o", "n", " ", "d", "e", "t", "e", "c", "t", "e", "d", " ", "-", " ", "c", "o", "n", "s",
             "i", "d", "e", "r", " ", "u", "s", "i", "n", "g", " ", "s", "m", "a", "r", "t", " ", "e",
             "x", "t", "r", "a", "c", "t", "i", "o", "n", " ", "a", "n", "d", " ", "d", "e", "t", "a",
             "i", "l", "e", "d", " ", "s", "u", "m", "m", "a", "r", "y">> >>
      ELSE <<>>)
  \o (IF ~analysis.hasSystemContext
      THEN << <<"N", "o", " ", "s", "y", "s", "t", "e", "m", " ", "c", "o", "n", "t", "e", "x",
             "t", " ", "f", "o", "u", "n", "d", " ", "-", " ", "c", "o", "n", "s", "i", "d", "e", "r",
             " ", "a", "d", "d", "i", "n", "g", " ", "s", "y", "s", "t", "e", "m", " ", "m", "e", "s",
             "s", "a", "g", "e", "s", " ", "f", "o", "r", " ", "b", "e", "t", "t", "e", "r", " ", "c",
             "o", "n", "t", "e", "x", "t">> >>
      ELSE <<>>)

\* The result of the catch block of validateConversationFormat
ValidationFailure(exception) ==
  [success |-> FALSE, valid |-> FALSE, error |-> exception.error,
   errorType |-> exception.errorType]

\* The try block of validateConversationFormat
ValidateBody(data) ==
  LET processed == processConversationData(data)
  IN IF processed.threw THEN processed
     ELSE IF \E k \in 1..Len(processed.value) : processed.value[k].content = Undefined
     THEN Throw("TypeError", "Cannot read properties of undefined (reading 'length')")
     ELSE Ok([success |-> TRUE, valid |-> TRUE,
              analysis |-> Analysis(processed.value),
              recommendations |-> generateRecommendations(Analysis(processed.value))])

\* The try/catch of validateConversationFormat: an exception of the try
\* block becomes the returned failure result
validateCatch(outcome) ==
  IF outcome.threw THEN Ok(ValidationFailure(outcome)) ELSE outcome

validateConversationFormat(data) == validateCatch(ValidateBody(data))

\* null as an element of the transfers array
NullRequest == [isNull |-> TRUE]

\* The tag replacing the metadata instead of extending it
TagResult_overwrite(result, i) ==
  Spread(result, [metadata |-> [transferIndex |-> i]])

\* result.metadata = { ...result.metadata, transferIndex: i }
TagResult(result, i) ==
  Spread(result,
         [metadata |-> Spread(IF "metadata" \in DOMAIN result THEN result.metadata
                              ELSE <<>>,
                              [transferIndex |-> i])])

\* The result pushed by the catch block of the loop of batchTransfer
BatchFailure(exception, i) ==
  [success |-> FALSE, error |-> exception.error, errorType |-> exception.errorType,
   metadata |-> [transferIndex |-> i]]

\* batchTransfer reporting success when some transfer succeeded
BatchReturnValue_anySuccess(transfers, results, successful, failed) ==
  [success |-> successful > 0,
   totalTransfers |-> Len(transfers),
   successfulTransfers |-> successful,
   failedTransfers |-> failed,
   results |-> results,
   metadata |-> [completedAt |-> Now]]

\* The object returned by batchTransfer
BatchReturnValue(transfers, results, successful, failed) ==
  [success |-> failed = 0,
   totalTransfers |-> Len(transfers),
   successfulTransfers |-> successful,
   failedTransfers |-> failed,
   results |-> results,
   metadata |-> [completedAt |-> Now]]

\* ------------------------------------------------------------------------
\* Command line: ContextTransferCLI.parseArgs and run
\* ------------------------------------------------------------------------
\* The case labels of the switch of parseArgs
Flag ==
  [source |-> <<"-", "-", "s", "o", "u", "r", "c", "e">>,
   s |-> <<"-", "s">>,
   target |-> <<"-", "-", "t", "a", "r", "g", "e", "t">>,
   t |-> <<"-", "t">>,
   input |-> <<"-", "-", "i", "n", "p", "u", "t">>,
   i |-> <<"-", "i">>,
   output |-> <<"-", "-", "o", "u", "t", "p", "u", "t">>,
   o |-> <<"-", "o">>,
   lastN |-> <<"-", "-", "l", "a", "s", "t", "-", "n">>,
   summaryType |-> <<"-", "-", "s", "u", "m", "m", "a", "r", "y", "-", "t", "y", "p", "e">>,
   outputFormat |-> <<"-", "-", "o", "u", "t", "p", "u", "t", "-", "f", "o", "r", "m", "a", "t">>,
   noSmartExtraction |-> <<"-", "-", "n", "o", "-", "s", "m", "a", "r", "t", "-", "e", "x", "t", "r", "a", "c", "t", "i", "o", "n">>,
   noMetadata |-> <<"-", "-", "n", "o", "-", "m", "e", "t", "a", "d", "a", "t", "a">>,
   includeCode |-> <<"-", "-", "i", "n", "c", "l", "u", "d", "e", "-", "c", "o", "d", "e">>,
   includeReasoning |-> <<"-", "-", "i", "n", "c", "l", "u", "d", "e", "-", "r", "e", "a", "s", "o", "n", "i", "n", "g">>,
   includeSafety |-> <<"-", "-", "i", "n", "c", "l", "u", "d", "e", "-", "s", "a", "f", "e", "t", "y">>,
   includeCreativity |-> <<"-", "-", "i", "n", "c", "l", "u", "d", "e", "-", "c", "r", "e", "a", "t", "i", "v", "i", "t", "y">>,
   includeExamples |-> <<"-", "-", "i", "n", "c", "l", "u", "d", "e", "-", "e", "x", "a", "m", "p", "l", "e", "s">>,
   includeStepByStep |-> <<"-", "-", "i", "n", "c", "l", "u", "d", "e", "-", "s", "t", "e", "p", "-", "b", "y", "-", "s", "t", "e", "p">>,
   includeMultimodal |-> <<"-", "-", "i", "n", "c", "l", "u", "d", "e", "-", "m", "u", "l", "t", "i", "m", "o", "d", "a", "l">>,
   includeWebSearch |-> <<"-", "-", "i", "n", "c", "l", "u", "d", "e", "-", "w", "e", "b", "-", "s", "e", "a", "r", "c", "h">>,
   batch |-> <<"-", "-", "b", "a", "t", "c", "h">>,
   validate |-> <<"-", "-", "v", "a", "l", "i", "d", "a", "t", "e">>,
   listModels |-> <<"-", "-", "l", "i", "s", "t", "-", "m", "o", "d", "e", "l", "s">>,
   chromeConfig |-> <<"-", "-", "c", "h", "r", "o", "m", "e", "-", "c", "o", "n", "f", "i", "g">>,
   help |-> <<"-", "-", "h", "e", "l", "p">>,
   h |-> <<"-", "h">>]

CLI_concise == <<"c", "o", "n", "c", "i", "s", "e">>

CLI_txt == <<"t", "x", "t">>

\* The options object parseArgs starts from: a key without a value is absent
CliDefaultOptions ==
  [sourceModel |-> <<>>, targetModel |-> <<>>, smartExtraction |-> TRUE,
   summaryType |-> CLI_concise, outputFormat |-> CLI_txt, includeMetadata |-> TRUE]

\* The cases that assign nextArg to an option, by case label
TextFlagKeys ==
  (Flag.source :> "sourceModel") @@ (Flag.s :> "sourceModel")
    @@ (Flag.target :> "targetModel") @@ (Flag.t :> "targetModel")
    @@ (Flag.input :> "inputFile") @@ (Flag.i :> "inputFile")
    @@ (Flag.output :> "outputFile") @@ (Flag.o :> "outputFile")
    @@ (Flag.summaryType :> "summaryType") @@ (Flag.outputFormat :> "outputFormat")

\* The cases that assign false to an option
FalseFlagKeys ==
  (Flag.noSmartExtraction :> "smartExtraction") @@ (Flag.noMetadata :> "includeMetadata")

\* The cases that assign true to an option
TrueFlagKeys ==
  (Flag.includeCode :> "includeCodeContext")
    @@ (Flag.includeReasoning :> "includeReasoning")
    @@ (Flag.includeSafety :> "includeSafety")
    @@ (Flag.includeCreativity :> "includeCreativity")
    @@ (Flag.includeExamples :> "includeExamples")
    @@ (Flag.includeStepByStep :> "includeStepByStep")
    @@ (Flag.includeMultimodal :> "includeMultimodal")
    @@ (Flag.includeWebSearch :> "includeWebSearch")
    @@ (Flag.batch :> "batch") @@ (Flag.validate :> "validate")
    @@ (Flag.listModels :> "listModels") @@ (Flag.chromeConfig :> "chromeConfig")
    @@ (Flag.help :> "help") @@ (Flag.h :> "help")

\* A number: NaN, or an integer value
NaN == [nan |-> TRUE]

Num(n) == [value |-> n]

\* The value of a string of decimal digits
RECURSIVE DigitsValue(_)
DigitsValue(s) ==
  IF Len(s) = 0 THEN 0
  ELSE 10 * DigitsValue(SubSeq(s, 1, Len(s) - 1))
         + (CHOOSE d \in 0..9 : Digits[d + 1] = s[Len(s)])

IsDigit(c) == \E d \in 1..10 : Digits[d] = c

\* parseInt(s) for radix 10: white space is skipped, a sign is read, then
\* the longest run of digits; NaN when there is no digit (also for
\* undefined, converted to the string "undefined")
ParseInt(s) ==
  LET start == SkipForward(s, 1)
      signed == start <= Len(s) /\ s[start] \in {"+", "-"}
      first == IF signed THEN start + 1 ELSE start
      run == {k \in first..Len(s) : \A j \in first..k : IsDigit(s[j])}
      magnitude == DigitsValue(SubSeq(s, first, first + Cardinality(run) - 1))
  IN IF run = {} THEN NaN
     ELSE IF signed /\ s[start] = "-" THEN Num(0 - magnitude)
     ELSE Num(magnitude)

\* options.key = value
SetOption(options, key, value) ==
  [k \in DOMAIN options \cup {key} |-> IF k = key THEN value ELSE options[k]]

\* options.key = nextArg, where nextArg is undefined past the end of args:
\* the key is left without a value
SetText(options, key, nextArg) ==
  IF nextArg = Undefined THEN [k \in DOMAIN options \ {key} |-> options[k]]
  ELSE SetOption(options, key, nextArg)

\* args[i + 1] for the 0-based index i
NextArg(args, i) == IF i + 2 <= Len(args) THEN args[i + 2] ELSE Undefined

\* The body of the switch of parseArgs for one arg
ParseArg(options, arg, nextArg) ==
  CASE arg \in DOMAIN TextFlagKeys -> SetText(options, TextFlagKeys[arg], nextArg)
    [] arg = Flag.lastN -> SetOption(options, "lastN", ParseInt(nextArg))
    [] arg \in DOMAIN FalseFlagKeys -> SetOption(options, FalseFlagKeys[arg], FALSE)
    [] arg \in DOMAIN TrueFlagKeys -> SetOption(options, TrueFlagKeys[arg], TRUE)
    [] OTHER -> options

\* A switch whose value-taking cases do not step over nextArg
SkipsNextArg_never(arg) == FALSE

\* The cases that end with i++: the next argument is stepped over
SkipsNextArg(arg) == arg \in DOMAIN TextFlagKeys \cup {Flag.lastN}

\* if (options.key) for a string option: undefined and '' are falsy
TruthyText(options, key) == HasValue(options, key) /\ Len(options[key]) > 0

\* The method run() calls once the SDK is initialized: the chain of if
\* statements, the first test that holds returns
SelectMode(options) ==
  IF Truthy(options, "listModels") THEN "listSupportedModels"
  ELSE IF Truthy(options, "chromeConfig") THEN "generateChromeConfig"
  ELSE IF Truthy(options, "validate") /\ TruthyText(options, "inputFile")
  THEN "validateConversation"
  ELSE IF Truthy(options, "batch") THEN "runBatchTransfer"
  ELSE IF TruthyText(options, "sourceModel") /\ TruthyText(options, "targetModel")
  THEN "runTransfer"
  ELSE "showHelp"

\* ------------------------------------------------------------------------
\* MultiMindSDK (src/src/index.ts): initialize, close, the method wrappers
\* and the cached sub-clients
\* ------------------------------------------------------------------------
\* The fields of MultiMindSDK that cache a sub-client
SubClientKinds ==
  {"advancedRAG", "modelConverter", "complianceMonitor", "advancedAgent", "gateway"}

\* The create methods called in the model: createAdvancedRAG, createGateway
CreatedKinds == {"advancedRAG", "gateway"}

\* initialize() without the test of this.initialized
InitializeCallsBridge_always(initialized) == TRUE

\* The test of initialize(): initBridge is called when the flag is not set
InitializeCallsBridge(initialized) == ~initialized

\* The test of close(): closeBridge is called when the flag is set
CloseCallsBridge(initialized) == initialized

\* A call of initBridge or closeBridge made by the call numbered by
BridgeCall(op, by) == [op |-> op, by |-> by, outcome |-> "pending"]

\* The calls of a sequence that have not settled
InFlight(calls) == {c \in 1..Len(calls) : calls[c].pc \notin {"returned", "threw"}}

\* A call as it is issued: the flag it finds, whether every earlier call
\* has settled, and the await it is suspended at
IssuedCall(op, kind, initialized, calls, pc) ==
  [op |-> op, kind |-> kind, initializedAtIssue |-> initialized,
   alone |-> InFlight(calls) = {}, pc |-> pc, result |-> 0]

\* ------------------------------------------------------------------------
\* State
\* ------------------------------------------------------------------------
VARIABLES
  exMessages,   \* extractContext: argument messages
  exLastN,      \* extractContext: argument lastN
  exSmart,      \* extractContext: argument smartExtraction
  exPc,         \* "ready" before the call, "returned" after it
  exOut,        \* extractContext: outcome of the call
  smMessages,   \* summarizeContext: argument messages
  smType,       \* summarizeContext: argument summaryType
  smPc,         \* "ready" before the call, "returned" after it
  smOut,        \* summarizeContext: outcome of the call
  psTranscript, \* the role/text entries the conversation file was written from
  psExt,        \* loadConversationFromFile: extension of filePath
  psFile,       \* content of the conversation file
  psFormat,     \* formatType after detection
  psLines,      \* parser: lines
  psI,          \* parser: number of lines consumed by the for loop
  psCurrentRole,    \* parser: currentRole ("null" for null)
  psCurrentContent, \* parser: currentContent
  psMessages,   \* parser: messages
  psPc,         \* "ready", "loop" or "returned"
  apiCall,      \* the ContextTransferAPI method called: "idle" before the call
  trArgs,       \* transferContextAPI: arguments of the call in progress
  trPc,         \* transferContextAPI: "none", the await it is suspended at, or "returned"
  trLocals,     \* transferContextAPI: locals of the suspended call
  trResponse,   \* transferContextAPI: the response object under construction
  trEnv,        \* answers of the remote side during the call in progress
  trAdapterArgs, \* the arguments adapter.formatContext was called with (<<>>: not called)
  trResult,     \* transferContextAPI: outcome of the call
  btTransfers,  \* batchTransfer: argument transfers
  btPc,         \* batchTransfer: "none", "loop", "awaitTransfer" or "returned"
  btI,          \* batchTransfer: loop index i
  btResults,    \* batchTransfer: results
  btSuccessful, \* batchTransfer: successful
  btFailed,     \* batchTransfer: failed
  btCalls,      \* batchTransfer: the indices transferContextAPI was called for, in order
  btEnv,        \* batchTransfer: the answers of the remote side, per completed call
  btReturn,     \* batchTransfer: outcome of the call
  vlData,       \* validateConversationFormat: argument data
  vlReturn,     \* validateConversationFormat: outcome of the call
  cliArgs,      \* command line: process.argv.slice(2)
  cliI,         \* parseArgs: loop index i
  cliOptions,   \* parseArgs: options, the keys that hold a value
  cliPc,        \* run(): "idle", "ready", "parseArgs", the await it is suspended at,
                \* "ended" (run() settled) or "exited" (process.exit(1))
  cliModes,     \* run(): the methods called after parseArgs, in order
  cliSdkInitialized, \* MultiMindSDK.initialized
  cliCloseCalls, \* number of calls of sdk.close()
  sdkInitialized, \* MultiMindSDK.initialized
  sdkSubClients,  \* the five cache fields: 0 (undefined) or the instance held
  sdkReady,       \* the sub-client instances whose initialize() has resolved
  sdkBridgeLog,   \* the calls of initBridge and closeBridge, in order
  sdkCalls,       \* the calls issued on the SDK, in order of issue
  agTools,        \* AdvancedAgent.tools: the names that hold a tool
  agMemory,       \* AdvancedAgent.memory
  agNextId,       \* number of memory ids generated so far
  agCall,         \* the call in progress or settled last, with the state it found
  agPc,           \* "idle", "awaitBridge", "returned" or "threw"
  flDisk,         \* the file system: the paths that hold a file, with its content
  flCall,         \* the file operation called, with its arguments
  flPc,           \* "ready", the await the call is suspended at, "returned", "threw"
  flLocals,       \* transferContext: locals of the suspended call
  flAdapter,      \* transferContext: the answer of the remote side ("none" before)
  flReads,        \* number of calls of fs.readFile
  flWrites,       \* the calls of fs.writeFile, in order, with their outcome
  flReturn,       \* outcome of the call
  icManagerConfig, \* ContextTransferManager.config of the API's manager
  icCalls         \* the calls entered on one ContextTransferAPI, each with its
                  \* arguments, the await it is suspended at and its locals

exVars == <<exMessages, exLastN, exSmart, exPc, exOut>>

smVars == <<smMessages, smType, smPc, smOut>>

psVars == <<psTranscript, psExt, psFile, psFormat, psLines, psI, psCurrentRole,
            psCurrentContent, psMessages, psPc>>

trVars == <<trArgs, trPc, trLocals, trResponse, trEnv, trAdapterArgs, trResult>>

btVars == <<btTransfers, btPc, btI, btResults, btSuccessful, btFailed, btCalls, btEnv,
            btReturn>>

vlVars == <<vlData, vlReturn>>

apiVars == <<apiCall, trVars, btVars, vlVars>>

cliVars == <<cliArgs, cliI, cliOptions, cliPc, cliModes, cliSdkInitialized, cliCloseCalls>>

sdkVars == <<sdkInitialized, sdkSubClients, sdkReady, sdkBridgeLog, sdkCalls>>

\* The variables of the context-transfer subsystem and its command line
coreVars == <<exVars, smVars, psVars, apiVars, cliVars>>

\* The variables of the other classes of the SDK
agVars == <<agTools, agMemory, agNextId, agCall, agPc>>

flVars == <<flDisk, flCall, flPc, flLocals, flAdapter, flReads, flWrites, flReturn>>

icVars == <<icManagerConfig, icCalls>>

libVars == <<sdkVars, agVars, flVars, icVars>>

vars == <<coreVars, libVars>>

\* ------------------------------------------------------------------------
\* Inputs
\* ------------------------------------------------------------------------

\* A role outside the three, as an untyped caller or JSON file can supply
UnknownRole == "tool"

CT_hi == <<"h", "i">>

CT_Note == <<"N", "o", "t", "e">>

\* The message arrays of length 0..maxLen whose elements take their role and
\* content from the given sets; the id of a message is its position.
MessageLists(maxLen, roles, contents) ==
  UNION {{[k \in 1..n |-> [id |-> k, role |-> f[k][1], content |-> f[k][2]]] :
            f \in [1..n -> roles \X contents]} : n \in 0..maxLen}

ExtractInputs == MessageLists(MaxMessages, Roles, {CT_hi, CT_Note})

LastNs == (-1)..MaxLastN

SummaryContents == {CT_hi, Repeat("a", ConciseLimit), Repeat("a", ConciseLimit + 1)}

SummaryInputs == MessageLists(MaxSummaryMessages, Roles \cup {UnknownRole}, SummaryContents)

SummaryTypes == {"concise", "detailed", "structured", "bulleted"}

\* Arguments of the ContextTransferAPI methods
ApiMessageLists == MessageLists(MaxApiMessages, {"user", "system"}, {CT_hi, CT_Note, Undefined})

\* An object that is no message: neither role nor content
ShapelessMessage == [id |-> 1, role |-> "undefined", content |-> Undefined]

ConversationDatas ==
  {[kind |-> "array", items |-> l] : l \in ApiMessageLists}
    \cup {[kind |-> k, items |-> l] :
            k \in {"messagesKey", "conversationKey"},
            l \in {x \in ApiMessageLists : Len(x) <= 1}}
    \cup {[kind |-> "object", items |-> <<ShapelessMessage>>],
          [kind |-> "object", items |-> <<[id |-> 1, role |-> "user", content |-> CT_hi]>>]}
    \cup {[kind |-> k, items |-> <<>>] : k \in {"string", "null", "undefined"}}

\* Message arrays given to validateConversationFormat: every role, a role
\* outside the three and a missing role ("undefined") included
ValidateDatas ==
  {[kind |-> "array", items |-> l] :
     l \in MessageLists(MaxApiMessages, Roles \cup {UnknownRole, "undefined"}, {CT_hi})}

NoOptions == [set |-> <<>>, undef |-> {}]

TransferOptionChoices ==
  {NoOptions,
   [set |-> [lastN |-> 1], undef |-> {}],
   [set |-> [lastN |-> 1, smartExtraction |-> FALSE, summaryType |-> "detailed"],
    undef |-> {}],
   [set |-> [summaryType |-> "structured", includeMetadata |-> FALSE], undef |-> {}],
   [set |-> [includeSummary |-> FALSE, lastN |-> 2], undef |-> {}],
   [set |-> [includeCodeContext |-> TRUE], undef |-> {"lastN", "summaryType"}],
   [set |-> <<>>, undef |-> {"includeSummary", "includeMetadata", "outputFormat"}]}

TransferRequests ==
  [sourceModel : {MODEL_chatgpt}, targetModel : {MODEL_Claude3, MODEL_MyModel},
   conversationData : ConversationDatas, options : TransferOptionChoices]

\* The requests a batch is made of: one that reports capabilities, one
\* without metadata on an object that is no message, one that fails (a
\* path), and null
CapabilityRequest ==
  [sourceModel |-> MODEL_chatgpt, targetModel |-> MODEL_Claude3,
   conversationData |->
     [kind |-> "array",
      items |-> <<[id |-> 1, role |-> "system", content |-> CT_Note],
                  [id |-> 2, role |-> "user", content |-> CT_hi]>>],
   options |-> [set |-> [lastN |-> 1], undef |-> {}]]

BatchRequests ==
  {CapabilityRequest,
   [sourceModel |-> MODEL_chatgpt, targetModel |-> MODEL_MyModel,
    conversationData |-> [kind |-> "object", items |-> <<ShapelessMessage>>],
    options |-> [set |-> [summaryType |-> "structured", includeMetadata |-> FALSE],
                 undef |-> {}]],
   [sourceModel |-> MODEL_chatgpt, targetModel |-> MODEL_Claude3,
    conversationData |-> [kind |-> "string", items |-> <<>>],
    options |-> NoOptions],
   NullRequest}

\* The batches of at most MaxBatch requests, at most one of them reporting
\* capabilities
BatchInputs ==
  {transfers \in UNION {[1..n -> BatchRequests] : n \in 0..MaxBatch} :
     Cardinality({k \in 1..Len(transfers) : transfers[k] = CapabilityRequest}) <= 1}

\* A transcript entry: a role, the text written after the prefix on the
\* prefix line, and the continuation lines written below it.
TranscriptEntries ==
  [role : Roles, first : {<<>>, CT_hello, CT_hiThere}, more : {<<>>, <<CT_more>>}]

Transcripts == UNION {[1..n -> TranscriptEntries] : n \in 0..MaxEntries}

FileExtensions == {EXT_txt, EXT_log, EXT_md, EXT_MD}

PrefixOfRole(format, role) == (CHOOSE p \in Prefixes(format) : p[2] = role)[1]

\* The lines written for one entry: "<prefix> <first>", then the continuation lines
EntryLines(format, entry) ==
  <<PrefixOfRole(format, entry.role)
      \o (IF entry.first = <<>> THEN <<>> ELSE <<" ">> \o entry.first)>>
    \o entry.more

\* The file written from a transcript with the documented prefixes
RenderTranscript(format, transcript, trailingNewline) ==
  Join(Flatten([k \in 1..Len(transcript) |-> EntryLines(format, transcript[k])]), <<"\n">>)
    \o (IF trailingNewline THEN <<"\n">> ELSE <<>>)

\* Command lines. An argument group is a flag with the argument written
\* after it, a flag alone, or a stray argument.
CLI_claude == <<"c", "l", "a", "u", "d", "e">>

CLI_inputFile == <<"c", ".", "t", "x", "t">>

CLI_outputFile == <<"o", ".", "t", "x", "t">>

CLI_detailed == <<"d", "e", "t", "a", "i", "l", "e", "d">>

CLI_markdown == <<"m", "a", "r", "k", "d", "o", "w", "n">>

CLI_10 == <<"1", "0">>

CLI_7x == <<"7", "x">>

CLI_abc == <<"a", "b", "c">>

\* The groups long command lines are made of
CoreGroups ==
  {<<Flag.source, MODEL_chatgpt>>, <<Flag.t, CLI_claude>>, <<Flag.input, CLI_inputFile>>,
   <<Flag.lastN, CLI_10>>, <<Flag.validate>>, <<Flag.batch>>, <<Flag.listModels>>,
   <<Flag.chromeConfig>>, <<Flag.help>>, <<Flag.input>>}

\* Every flag of the switch, value-taking ones with a value, with a flag
\* in the place of the value or --last-n with a value that is no numeral
AllGroups ==
  {<<Flag.source, MODEL_chatgpt>>, <<Flag.s, MODEL_chatgpt>>, <<Flag.target, CLI_claude>>,
   <<Flag.t, CLI_claude>>, <<Flag.input, CLI_inputFile>>, <<Flag.i, CLI_inputFile>>,
   <<Flag.output, CLI_outputFile>>, <<Flag.o, CLI_outputFile>>,
   <<Flag.summaryType, CLI_detailed>>, <<Flag.outputFormat, CLI_markdown>>,
   <<Flag.lastN, CLI_10>>, <<Flag.lastN, CLI_7x>>, <<Flag.lastN, CLI_abc>>,
   <<Flag.source, Flag.batch>>, <<Flag.summaryType>>, <<MODEL_chatgpt>>}
    \cup {<<f>> : f \in DOMAIN FalseFlagKeys \cup DOMAIN TrueFlagKeys}

ArgVectors ==
  {Flatten(groups) : groups \in UNION {[1..n -> CoreGroups] : n \in 0..MaxArgGroups}}
    \cup {g1 \o g2 : g1 \in AllGroups, g2 \in AllGroups}

\* ------------------------------------------------------------------------
\* Extraction and summary as calls on a ContextTransferManager
\* ------------------------------------------------------------------------
ExtractIdle ==
  /\ exMessages = <<>>
  /\ exLastN = 5
  /\ exSmart = TRUE
  /\ exPc = "idle"
  /\ exOut = Ok(<<>>)

SummaryIdle ==
  /\ smMessages = <<>>
  /\ smType = "concise"
  /\ smPc = "idle"
  /\ smOut = Ok(<<>>)

ParserIdle ==
  /\ psTranscript = <<>>
  /\ psExt = EXT_txt
  /\ psFile = <<>>
  /\ psFormat = "auto"
  /\ psLines = <<>>
  /\ psI = 0
  /\ psCurrentRole = "null"
  /\ psCurrentContent = <<>>
  /\ psMessages = <<>>
  /\ psPc = "idle"

NoEnv == [adapter |-> "none", source |-> "none", target |-> "none"]

TransferIdle ==
  /\ trArgs = <<>>
  /\ trPc = "none"
  /\ trLocals = <<>>
  /\ trResponse = <<>>
  /\ trEnv = NoEnv
  /\ trAdapterArgs = <<>>
  /\ trResult = Ok(<<>>)

ApiIdle ==
  /\ apiCall = "idle"
  /\ TransferIdle
  /\ btTransfers = <<>>
  /\ btPc = "none"
  /\ btI = 0
  /\ btResults = <<>>
  /\ btSuccessful = 0
  /\ btFailed = 0
  /\ btCalls = <<>>
  /\ btEnv = <<>>
  /\ btReturn = Ok(<<>>)
  /\ vlData = <<>>
  /\ vlReturn = Ok(<<>>)

CliIdle ==
  /\ cliArgs = <<>>
  /\ cliI = 0
  /\ cliOptions = <<>>
  /\ cliPc = "idle"
  /\ cliModes = <<>>
  /\ cliSdkInitialized = FALSE
  /\ cliCloseCalls = 0

SdkIdle ==
  /\ sdkInitialized = FALSE
  /\ sdkSubClients = [kind \in SubClientKinds |-> 0]
  /\ sdkReady = {}
  /\ sdkBridgeLog = <<>>
  /\ sdkCalls = <<>>

CoreIdle == ExtractIdle /\ SummaryIdle /\ ParserIdle /\ ApiIdle /\ CliIdle

AgentIdle ==
  /\ agTools = {}
  /\ agMemory = <<>>
  /\ agNextId = 0
  /\ agCall = <<>>
  /\ agPc = "idle"

FileIdle ==
  /\ flDisk = <<>>
  /\ flCall = <<>>
  /\ flPc = "idle"
  /\ flLocals = <<>>
  /\ flAdapter = "none"
  /\ flReads = 0
  /\ flWrites = <<>>
  /\ flReturn = Ok(<<>>)

\* The config the constructor of ContextTransferManager builds from no argument
ManagerConfig ==
  [maxContextLength |-> 32000, defaultSummaryLength |-> 1000,
   includeMetadata |-> ConfigIncludeMetadata, preserveFormatting |-> TRUE,
   smartTruncation |-> TRUE, contextCompression |-> FALSE]

InterleavedIdle ==
  /\ icManagerConfig = ManagerConfig
  /\ icCalls = <<>>

LibIdle == SdkIdle /\ AgentIdle /\ FileIdle /\ InterleavedIdle

InitExtract ==
  /\ exMessages \in ExtractInputs
  /\ exLastN \in LastNs
  /\ exSmart \in BOOLEAN
  /\ exPc = "ready"
  /\ exOut = Ok(<<>>)
  /\ SummaryIdle
  /\ ParserIdle
  /\ ApiIdle
  /\ CliIdle
  /\ LibIdle

CallExtractContext ==
  /\ exPc = "ready"
  /\ exOut' = extractContext(exMessages, exLastN, exSmart)
  /\ exPc' = "returned"
  /\ UNCHANGED <<exMessages, exLastN, exSmart, smVars, psVars, apiVars, cliVars, libVars>>

NextExtract == CallExtractContext

SpecExtract == InitExtract /\ [][NextExtract]_vars

InitSummary ==
  /\ smMessages \in SummaryInputs
  /\ smType \in SummaryTypes
  /\ smPc = "ready"
  /\ smOut = Ok(<<>>)
  /\ ExtractIdle
  /\ ParserIdle
  /\ ApiIdle
  /\ CliIdle
  /\ LibIdle

CallSummarizeContext ==
  /\ smPc = "ready"
  /\ smOut' = summarizeContext(smMessages, smType)
  /\ smPc' = "returned"
  /\ UNCHANGED <<smMessages, smType, exVars, psVars, apiVars, cliVars, libVars>>

NextSummary == CallSummarizeContext

SpecSummary == InitSummary /\ [][NextSummary]_vars

\* ------------------------------------------------------------------------
\* loadConversationFromFile on a text or markdown file, line by line
\* ------------------------------------------------------------------------
InitParser ==
  /\ psTranscript \in Transcripts
  /\ psExt \in FileExtensions
  /\ \E trailingNewline \in BOOLEAN :
       psFile = RenderTranscript(detectFileFormat(psExt), psTranscript, trailingNewline)
  /\ psFormat = "auto"
  /\ psLines = <<>>
  /\ psI = 0
  /\ psCurrentRole = "null"
  /\ psCurrentContent = <<>>
  /\ psMessages = <<>>
  /\ psPc = "ready"
  /\ ExtractIdle
  /\ SummaryIdle
  /\ ApiIdle
  /\ CliIdle
  /\ LibIdle

\* loadConversationFromFile(filePath): format detection, file read and the
\* statements of loadTextConversation / loadMarkdownConversation before the loop
LoadConversationFromFile ==
  /\ psPc = "ready"
  /\ psFormat' = detectFileFormat(psExt)
  /\ psLines' = FileLines(psFormat', psFile)
  /\ psI' = 0
  /\ psCurrentRole' = "null"
  /\ psCurrentContent' = <<>>
  /\ psMessages' = <<>>
  /\ psPc' = "loop"
  /\ UNCHANGED <<psTranscript, psExt, psFile, exVars, smVars, apiVars, cliVars, libVars>>

\* messages after the flush both parsers do before a new message and at the end
Flush(messages, role, contentLines) ==
  IF role # "null" /\ Len(contentLines) > 0
  THEN Append(messages, FlushedMessage(role, contentLines))
  ELSE messages

\* One iteration of the for loop over the lines
ParseLine ==
  /\ psPc = "loop"
  /\ psI < Len(psLines)
  /\ LET line == psLines[psI + 1]
     IN IF IsPrefixLine(psFormat, line)
        THEN /\ psMessages' = Flush(psMessages, psCurrentRole, psCurrentContent)
             /\ psCurrentRole' = RoleOfLine(psFormat, line)
             /\ psCurrentContent' = <<PrefixLineText(line)>>
        ELSE /\ psCurrentContent' = Append(psCurrentContent, line)
             /\ UNCHANGED <<psMessages, psCurrentRole>>
  /\ psI' = psI + 1
  /\ UNCHANGED <<psTranscript, psExt, psFile, psFormat, psLines, psPc, exVars, smVars,
                 apiVars, cliVars, libVars>>

\* After the loop: the trailing message is flushed and messages is returned
FinishLoad ==
  /\ psPc = "loop"
  /\ psI = Len(psLines)
  /\ psMessages' = Flush(psMessages, psCurrentRole, psCurrentContent)
  /\ psPc' = "returned"
  /\ UNCHANGED <<psTranscript, psExt, psFile, psFormat, psLines, psI, psCurrentRole,
                 psCurrentContent, exVars, smVars, apiVars, cliVars, libVars>>

NextParser == LoadConversationFromFile \/ ParseLine \/ FinishLoad

SpecParser == InitParser /\ [][NextParser]_vars

\* ------------------------------------------------------------------------
\* ContextTransferAPI: one call of transferContextAPI, batchTransfer or
\* validateConversationFormat, suspended at the calls into the remote side
\* ------------------------------------------------------------------------
Init ==
  /\ ApiIdle
  /\ ExtractIdle
  /\ SummaryIdle
  /\ ParserIdle
  /\ CliIdle
  /\ LibIdle

\* transferContextAPI is entered with the arguments of request: it runs to
\* the await of the adapter lookup, or returns the failure result.
EnterTransfer(request) ==
  LET begun == TransferBegin(request.sourceModel, request.targetModel,
                             request.conversationData, request.options)
  IN /\ trArgs' = request
     /\ trEnv' = NoEnv
     /\ trAdapterArgs' = <<>>
     /\ trResponse' = <<>>
     /\ IF begun.threw
        THEN /\ trPc' = "returned"
             /\ trResult' = transferCatch(begun)
             /\ trLocals' = <<>>
        ELSE /\ trPc' = "awaitAdapter"
             /\ trLocals' = begun.value
             /\ trResult' = Ok(<<>>)

CallTransfer ==
  /\ apiCall = "idle"
  /\ apiCall' = "transfer"
  /\ \E request \in TransferRequests : EnterTransfer(request)
  /\ UNCHANGED <<btVars, vlVars, exVars, smVars, psVars, cliVars, libVars>>

\* The remote side answers the adapter lookup: formatForTargetModel
\* returns, the response object is built, and the call goes on to the
\* capability lookups or returns.
AdapterReply ==
  /\ trPc = "awaitAdapter"
  /\ \E outcome \in AdapterOutcomes :
       LET formatted == formatForTargetModel(trLocals.targetModel, trLocals.summary,
                                             trLocals.sourceModel,
                                             trLocals.formattingOptions, outcome)
       IN /\ trEnv' = [trEnv EXCEPT !.adapter = outcome]
          /\ trAdapterArgs' = FormatContextCall(trLocals.summary, trLocals.sourceModel,
                                                trLocals.formattingOptions, outcome)
          /\ IF formatted.threw
             THEN /\ trPc' = "returned"
                  /\ trResult' = transferCatch(formatted)
                  /\ UNCHANGED trResponse
             ELSE IF Truthy(trLocals.finalOptions, "includeMetadata")
             THEN /\ trPc' = "awaitSourceInfo"
                  /\ trResponse' = TransferResponse(trLocals, formatted.value)
                  /\ UNCHANGED trResult
             ELSE /\ trPc' = "returned"
                  /\ trResponse' = TransferResponse(trLocals, formatted.value)
                  /\ trResult' = Ok(trResponse')
  /\ UNCHANGED <<apiCall, trArgs, trLocals, btVars, vlVars, exVars, smVars, psVars, cliVars, libVars>>

\* getModelInfo(sourceModel) returns: the remote answer or the default record
SourceInfoReply ==
  /\ trPc = "awaitSourceInfo"
  /\ \E outcome \in InfoOutcomes :
       /\ trEnv' = [trEnv EXCEPT !.source = outcome]
       /\ trLocals' = Spread(trLocals,
                             [sourceInfo |-> getModelInfo(trLocals.sourceModel, outcome)])
  /\ trPc' = "awaitTargetInfo"
  /\ UNCHANGED <<apiCall, trArgs, trResponse, trAdapterArgs, trResult, btVars, vlVars,
                 exVars, smVars, psVars, cliVars, libVars>>

\* getModelInfo(targetModel) returns; the response is completed and returned
TargetInfoReply ==
  /\ trPc = "awaitTargetInfo"
  /\ \E outcome \in InfoOutcomes :
       /\ trEnv' = [trEnv EXCEPT !.target = outcome]
       /\ trResponse' = WithCapabilities(trResponse, trLocals.sourceInfo,
                                         getModelInfo(trLocals.targetModel, outcome))
  /\ trResult' = Ok(trResponse')
  /\ trPc' = "returned"
  /\ UNCHANGED <<apiCall, trArgs, trLocals, trAdapterArgs, btVars, vlVars, exVars, smVars,
                 psVars, cliVars, libVars>>

CallBatchTransfer ==
  /\ apiCall = "idle"
  /\ apiCall' = "batch"
  /\ btTransfers' \in BatchInputs
  /\ btResults' = <<>>
  /\ btSuccessful' = 0
  /\ btFailed' = 0
  /\ btI' = 0
  /\ btPc' = "loop"
  /\ UNCHANGED <<btCalls, btEnv, btReturn, trVars, vlVars, exVars, smVars, psVars, cliVars, libVars>>

\* The loop test holds: the body reads transfers[i] and calls
\* transferContextAPI. Reading a property of a null element throws inside
\* the try block; the catch block pushes the failure and the loop goes on.
BatchIterate ==
  /\ btPc = "loop"
  /\ btI < Len(btTransfers)
  /\ LET transferConfig == btTransfers[btI + 1]
     IN IF transferConfig = NullRequest
        THEN /\ btResults' =
                  Append(btResults,
                         BatchFailure(Throw("TypeError",
                           "Cannot read properties of null (reading 'sourceModel')"), btI))
             /\ btFailed' = btFailed + 1
             /\ btEnv' = Append(btEnv, NoEnv)
             /\ btI' = btI + 1
             /\ UNCHANGED <<btPc, btCalls, trVars>>
        ELSE /\ EnterTransfer(transferConfig)
             /\ btCalls' = Append(btCalls, btI)
             /\ btPc' = "awaitTransfer"
             /\ UNCHANGED <<btResults, btFailed, btEnv, btI>>
  /\ UNCHANGED <<apiCall, btTransfers, btSuccessful, btReturn, vlVars, exVars, smVars,
                 psVars, cliVars, libVars>>

\* transferContextAPI has returned to the loop body: the result is tagged
\* with the index, pushed and counted (a rejected call is pushed by the
\* catch block), and i is incremented.
BatchCollect ==
  /\ btPc = "awaitTransfer"
  /\ trPc = "returned"
  /\ IF trResult.threw
     THEN /\ btResults' = Append(btResults, BatchFailure(trResult, btI))
          /\ btFailed' = btFailed + 1
          /\ UNCHANGED btSuccessful
     ELSE LET result == TagResult(trResult.value, btI)
          IN /\ btResults' = Append(btResults, result)
             /\ btSuccessful' = IF result.success THEN btSuccessful + 1 ELSE btSuccessful
             /\ btFailed' = IF result.success THEN btFailed ELSE btFailed + 1
  /\ btEnv' = Append(btEnv, trEnv)
  /\ btI' = btI + 1
  /\ btPc' = "loop"
  /\ trPc' = "none"
  /\ UNCHANGED <<apiCall, btTransfers, btCalls, btReturn, trArgs, trLocals, trResponse,
                 trEnv, trAdapterArgs, trResult, vlVars, exVars, smVars, psVars, cliVars, libVars>>

\* The loop test fails: batchTransfer returns its summary object
BatchReturn ==
  /\ btPc = "loop"
  /\ btI >= Len(btTransfers)
  /\ btReturn' = Ok(BatchReturnValue(btTransfers, btResults, btSuccessful, btFailed))
  /\ btPc' = "returned"
  /\ UNCHANGED <<apiCall, btTransfers, btI, btResults, btSuccessful, btFailed, btCalls,
                 btEnv, trVars, vlVars, exVars, smVars, psVars, cliVars, libVars>>

CallValidate ==
  /\ apiCall = "idle"
  /\ apiCall' = "validate"
  /\ vlData' \in ConversationDatas \cup ValidateDatas
  /\ vlReturn' = validateConversationFormat(vlData')
  /\ UNCHANGED <<trVars, btVars, exVars, smVars, psVars, cliVars, libVars>>

Next ==
  \/ CallTransfer
  \/ AdapterReply
  \/ SourceInfoReply
  \/ TargetInfoReply
  \/ CallBatchTransfer
  \/ BatchIterate
  \/ BatchCollect
  \/ BatchReturn
  \/ CallValidate

Spec == Init /\ [][Next]_vars

\* ------------------------------------------------------------------------
\* ContextTransferCLI.run: one invocation of the command line
\* ------------------------------------------------------------------------
InitCli ==
  /\ cliArgs \in ArgVectors
  /\ cliI = 0
  /\ cliOptions = <<>>
  /\ cliPc = "ready"
  /\ cliModes = <<>>
  /\ cliSdkInitialized = FALSE
  /\ cliCloseCalls = 0
  /\ ExtractIdle
  /\ SummaryIdle
  /\ ParserIdle
  /\ ApiIdle
  /\ LibIdle

\* run() is entered and calls parseArgs, which builds the default options
CliRun ==
  /\ cliPc = "ready"
  /\ cliOptions' = CliDefaultOptions
  /\ cliI' = 0
  /\ cliPc' = "parseArgs"
  /\ UNCHANGED <<cliArgs, cliModes, cliSdkInitialized, cliCloseCalls, exVars, smVars,
                 psVars, apiVars, libVars>>

\* One iteration of the for loop of parseArgs
CliParseArg ==
  /\ cliPc = "parseArgs"
  /\ cliI < Len(cliArgs)
  /\ cliOptions' = ParseArg(cliOptions, cliArgs[cliI + 1], NextArg(cliArgs, cliI))
  /\ cliI' = IF SkipsNextArg(cliArgs[cliI + 1]) THEN cliI + 2 ELSE cliI + 1
  /\ UNCHANGED <<cliArgs, cliPc, cliModes, cliSdkInitialized, cliCloseCalls, exVars,
                 smVars, psVars, apiVars, libVars>>

\* parseArgs returns. With --help the usage is shown and run() returns
\* through its finally block, where sdk.close() finds the SDK not
\* initialized; otherwise sdk.initialize() is awaited.
CliParsed ==
  /\ cliPc = "parseArgs"
  /\ cliI >= Len(cliArgs)
  /\ IF Truthy(cliOptions, "help")
     THEN /\ cliModes' = Append(cliModes, "showHelp")
          /\ cliCloseCalls' = cliCloseCalls + 1
          /\ cliPc' = "ended"
     ELSE /\ cliPc' = "awaitInitialize"
          /\ UNCHANGED <<cliModes, cliCloseCalls>>
  /\ UNCHANGED <<cliArgs, cliI, cliOptions, cliSdkInitialized, exVars, smVars, psVars,
                 apiVars, libVars>>

\* initBridge settles. Rejected: the catch block of run() logs the error
\* and calls process.exit(1). Resolved: the SDK is initialized and the mode
\* selected by the options is called; showHelp returns at once and run()
\* goes on to its finally block.
CliInitializeReply ==
  /\ cliPc = "awaitInitialize"
  /\ \E outcome \in {"resolved", "rejected"} :
       IF outcome = "rejected"
       THEN /\ cliPc' = "exited"
            /\ UNCHANGED <<cliModes, cliSdkInitialized, cliCloseCalls>>
       ELSE /\ cliSdkInitialized' = TRUE
            /\ cliModes' = Append(cliModes, SelectMode(cliOptions))
            /\ IF SelectMode(cliOptions) = "showHelp"
               THEN /\ cliPc' = "awaitClose"
                    /\ cliCloseCalls' = cliCloseCalls + 1
               ELSE /\ cliPc' = "awaitMode"
                    /\ UNCHANGED cliCloseCalls
  /\ UNCHANGED <<cliArgs, cliI, cliOptions, exVars, smVars, psVars, apiVars, libVars>>

\* The mode method returns (each catches its own errors); the finally
\* block of run() calls sdk.close(), which awaits closeBridge
CliModeReturns ==
  /\ cliPc = "awaitMode"
  /\ cliCloseCalls' = cliCloseCalls + 1
  /\ cliPc' = "awaitClose"
  /\ UNCHANGED <<cliArgs, cliI, cliOptions, cliModes, cliSdkInitialized, exVars, smVars,
                 psVars, apiVars, libVars>>

\* closeBridge settles and run() ends; a rejection leaves the SDK marked
\* initialized and rejects run(), which the caller logs
CliCloseReply ==
  /\ cliPc = "awaitClose"
  /\ \E outcome \in {"resolved", "rejected"} :
       cliSdkInitialized' = (outcome = "rejected")
  /\ cliPc' = "ended"
  /\ UNCHANGED <<cliArgs, cliI, cliOptions, cliModes, cliCloseCalls, exVars, smVars,
                 psVars, apiVars, libVars>>

NextCli ==
  \/ CliRun
  \/ CliParseArg
  \/ CliParsed
  \/ CliInitializeReply
  \/ CliModeReturns
  \/ CliCloseReply

SpecCli == InitCli /\ [][NextCli]_vars

\* ------------------------------------------------------------------------
\* MultiMindSDK: calls issued on one instance. A call runs to its first
\* await when it is issued and is resumed when the awaited promise settles,
\* so the calls in flight interleave at their awaits.
\* ------------------------------------------------------------------------
InitSdk ==
  /\ SdkIdle
  /\ CoreIdle
  /\ AgentIdle
  /\ FileIdle
  /\ InterleavedIdle

\* The synchronous part of initialize(), run by the call being issued:
\* initBridge is called and awaited, or the call goes on
EnterInitialize(op, kind) ==
  IF InitializeCallsBridge(sdkInitialized)
  THEN /\ sdkBridgeLog' = Append(sdkBridgeLog, BridgeCall("initBridge", Len(sdkCalls) + 1))
       /\ sdkCalls' = Append(sdkCalls, IssuedCall(op, kind, sdkInitialized, sdkCalls,
                                                  "awaitInitBridge"))
  ELSE /\ sdkCalls' = Append(sdkCalls, IssuedCall(op, kind, sdkInitialized, sdkCalls,
                                                  "afterInitialize"))
       /\ UNCHANGED sdkBridgeLog

\* sdk.initialize()
SdkInitialize ==
  /\ Len(sdkCalls) < MaxSdkCalls
  /\ EnterInitialize("initialize", "none")
  /\ UNCHANGED <<sdkInitialized, sdkSubClients, sdkReady, coreVars, agVars, flVars, icVars>>

\* sdk.close()
SdkClose ==
  /\ Len(sdkCalls) < MaxSdkCalls
  /\ IF CloseCallsBridge(sdkInitialized)
     THEN /\ sdkBridgeLog' = Append(sdkBridgeLog,
                                    BridgeCall("closeBridge", Len(sdkCalls) + 1))
          /\ sdkCalls' = Append(sdkCalls, IssuedCall("close", "none", sdkInitialized,
                                                     sdkCalls, "awaitCloseBridge"))
     ELSE /\ sdkCalls' = Append(sdkCalls, IssuedCall("close", "none", sdkInitialized,
                                                     sdkCalls, "returned"))
          /\ UNCHANGED sdkBridgeLog
  /\ UNCHANGED <<sdkInitialized, sdkSubClients, sdkReady, coreVars, agVars, flVars, icVars>>

\* sdk.generateWithAgent(prompt, config), as every wrapper that awaits
\* initialize() and then returns the call of the wrapped function
SdkGenerateWithAgent ==
  /\ Len(sdkCalls) < MaxSdkCalls
  /\ EnterInitialize("generateWithAgent", "none")
  /\ UNCHANGED <<sdkInitialized, sdkSubClients, sdkReady, coreVars, agVars, flVars, icVars>>

\* sdk.createAdvancedRAG(), createModelConverter(), createComplianceMonitor(),
\* createAdvancedAgent(), createGateway(): the call for the cache field kind
SdkCreate ==
  /\ Len(sdkCalls) < MaxSdkCalls
  /\ \E kind \in CreatedKinds : EnterInitialize("create", kind)
  /\ UNCHANGED <<sdkInitialized, sdkSubClients, sdkReady, coreVars, agVars, flVars, icVars>>

\* The log with the outcome of the bridge call made by call c
Settled(log, c, outcome) ==
  [k \in 1..Len(log) |->
     IF log[k].by = c THEN [log[k] EXCEPT !.outcome = outcome] ELSE log[k]]

\* initBridge settles for call c: initialize() sets the flag and returns,
\* or rejects, and with it the call that awaited it
SdkInitBridgeReply ==
  \E c \in 1..Len(sdkCalls), outcome \in {"resolved", "rejected"} :
    /\ sdkCalls[c].pc = "awaitInitBridge"
    /\ sdkBridgeLog' = Settled(sdkBridgeLog, c, outcome)
    /\ IF outcome = "resolved"
       THEN /\ sdkInitialized' = TRUE
            /\ sdkCalls' = [sdkCalls EXCEPT ![c].pc = "afterInitialize"]
       ELSE /\ sdkCalls' = [sdkCalls EXCEPT ![c].pc = "threw"]
            /\ UNCHANGED sdkInitialized
    /\ UNCHANGED <<sdkSubClients, sdkReady, coreVars, agVars, flVars, icVars>>

\* closeBridge settles for call c: close() clears the flag, or rejects
SdkCloseBridgeReply ==
  \E c \in 1..Len(sdkCalls), outcome \in {"resolved", "rejected"} :
    /\ sdkCalls[c].pc = "awaitCloseBridge"
    /\ sdkBridgeLog' = Settled(sdkBridgeLog, c, outcome)
    /\ IF outcome = "resolved"
       THEN /\ sdkInitialized' = FALSE
            /\ sdkCalls' = [sdkCalls EXCEPT ![c].pc = "returned"]
       ELSE /\ sdkCalls' = [sdkCalls EXCEPT ![c].pc = "threw"]
            /\ UNCHANGED sdkInitialized
    /\ UNCHANGED <<sdkSubClients, sdkReady, coreVars, agVars, flVars, icVars>>

\* Call c is resumed after its await of initialize(). initialize() itself
\* has returned; a wrapper returns what the wrapped function does; a
\* create method tests its cache field and either constructs an instance,
\* stores it and awaits its initialize(), or returns the instance held.
SdkAfterInitialize ==
  \E c \in 1..Len(sdkCalls) :
    /\ sdkCalls[c].pc = "afterInitialize"
    /\ CASE sdkCalls[c].op = "initialize" ->
              /\ sdkCalls' = [sdkCalls EXCEPT ![c].pc = "returned"]
              /\ UNCHANGED sdkSubClients
         [] sdkCalls[c].op = "generateWithAgent" ->
              /\ \E pc \in {"returned", "threw"} :
                   sdkCalls' = [sdkCalls EXCEPT ![c].pc = pc]
              /\ UNCHANGED sdkSubClients
         [] OTHER ->
              IF sdkSubClients[sdkCalls[c].kind] = 0
              THEN /\ sdkSubClients' = [sdkSubClients EXCEPT ![sdkCalls[c].kind] = c]
                   /\ sdkCalls' = [sdkCalls EXCEPT ![c].pc = "awaitSubInit"]
              ELSE /\ sdkCalls' = [sdkCalls EXCEPT
                                     ![c].pc = "returned",
                                     ![c].result = sdkSubClients[sdkCalls[c].kind]]
                   /\ UNCHANGED sdkSubClients
    /\ UNCHANGED <<sdkInitialized, sdkReady, sdkBridgeLog, coreVars, agVars, flVars, icVars>>

\* The initialize() of the sub-client constructed by call c settles: the
\* create method returns the cache field, or rejects
SdkSubClientInitializeReply ==
  \E c \in 1..Len(sdkCalls), outcome \in {"resolved", "rejected"} :
    /\ sdkCalls[c].pc = "awaitSubInit"
    /\ IF outcome = "resolved"
       THEN /\ sdkReady' = sdkReady \cup {c}
            /\ sdkCalls' = [sdkCalls EXCEPT
                              ![c].pc = "returned",
                              ![c].result = sdkSubClients[sdkCalls[c].kind]]
       ELSE /\ sdkCalls' = [sdkCalls EXCEPT ![c].pc = "threw"]
            /\ UNCHANGED sdkReady
    /\ UNCHANGED <<sdkInitialized, sdkSubClients, sdkBridgeLog, coreVars, agVars, flVars, icVars>>

NextSdk ==
  \/ SdkInitialize
  \/ SdkClose
  \/ SdkGenerateWithAgent
  \/ SdkCreate
  \/ SdkInitBridgeReply
  \/ SdkCloseBridgeReply
  \/ SdkAfterInitialize
  \/ SdkSubClientInitializeReply

SpecSdk == InitSdk /\ [][NextSdk]_vars

\* ------------------------------------------------------------------------
\* AdvancedAgent: calls of addTool, removeTool, addMemory and clearMemory on
\* one agent, each awaited before the next; a call is suspended at its
\* call of the remote agent.
\* ------------------------------------------------------------------------
ToolNames == {"calculator", "search"}

MemoryTypes == {"short_term", "long_term"}

InitAgent ==
  /\ agTools \in SUBSET ToolNames
  /\ agMemory = <<>>
  /\ agNextId = 0
  /\ agCall = <<>>
  /\ agPc = "idle"
  /\ CoreIdle
  /\ SdkIdle
  /\ FileIdle
  /\ InterleavedIdle

\* The call op(arg) as it is entered
AgentCall(op, arg) == [op |-> op, arg |-> arg, tools |-> agTools, memory |-> agMemory]

\* addTool(name, tool): the remote add_tool is awaited first
AgentAddTool ==
  /\ agPc # "awaitBridge"
  /\ \E name \in ToolNames : agCall' = AgentCall("addTool", name)
  /\ agPc' = "awaitBridge"
  /\ UNCHANGED <<agTools, agMemory, agNextId, coreVars, sdkVars, flVars, icVars>>

\* removeTool(name): the remote remove_tool is awaited first
AgentRemoveTool ==
  /\ agPc # "awaitBridge"
  /\ \E name \in ToolNames : agCall' = AgentCall("removeTool", name)
  /\ agPc' = "awaitBridge"
  /\ UNCHANGED <<agTools, agMemory, agNextId, coreVars, sdkVars, flVars, icVars>>

\* addMemory(entry): the entry gets a fresh id and is pushed, then the
\* remote add_memory is awaited
AgentAddMemory ==
  /\ agPc # "awaitBridge"
  /\ agNextId < MaxMemoryEntries
  /\ \E type \in MemoryTypes :
       /\ agCall' = AgentCall("addMemory", type)
       /\ agMemory' = Append(agMemory, [id |-> agNextId + 1, type |-> type])
  /\ agNextId' = agNextId + 1
  /\ agPc' = "awaitBridge"
  /\ UNCHANGED <<agTools, coreVars, sdkVars, flVars, icVars>>

\* clearMemory(type): the entries of the type are filtered out (all
\* entries without a type), then the remote clear_memory is awaited
AgentClearMemory ==
  /\ agPc # "awaitBridge"
  /\ \E type \in MemoryTypes \cup {"undefined"} :
       /\ agCall' = AgentCall("clearMemory", type)
       /\ agMemory' = IF type # "undefined"
                      THEN SelectSeq(agMemory, LAMBDA entry : entry.type # type)
                      ELSE <<>>
  /\ agPc' = "awaitBridge"
  /\ UNCHANGED <<agTools, agNextId, coreVars, sdkVars, flVars, icVars>>

\* The call of the remote agent settles. Resolved: addTool stores the
\* tool, removeTool deletes it, and the method returns its result.
\* Rejected: the catch block logs the error and rethrows it.
AgentBridgeReply ==
  /\ agPc = "awaitBridge"
  /\ \E outcome \in {"resolved", "rejected"} :
       IF outcome = "resolved"
       THEN /\ agTools' = CASE agCall.op = "addTool" -> agTools \cup {agCall.arg}
                            [] agCall.op = "removeTool" -> agTools \ {agCall.arg}
                            [] OTHER -> agTools
            /\ agPc' = "returned"
       ELSE /\ agPc' = "threw"
            /\ UNCHANGED agTools
  /\ UNCHANGED <<agMemory, agNextId, agCall, coreVars, sdkVars, flVars, icVars>>

NextAgent ==
  \/ AgentAddTool
  \/ AgentRemoveTool
  \/ AgentAddMemory
  \/ AgentClearMemory
  \/ AgentBridgeReply

SpecAgent == InitAgent /\ [][NextAgent]_vars

\* ------------------------------------------------------------------------
\* ContextTransferManager: the file operations loadConversationFromFile,
\* saveFormattedPrompt and transferContext (file to file)
\* ------------------------------------------------------------------------
\* The content of a file is text, or the JSON text of a document:
\*   [kind |-> "text", text |-> characters]
\*   [kind |-> "json", doc |-> document]
\* and a document is null or an array or object as in ConversationDatas.
FILE_json == <<"c", ".", "j", "s", "o", "n">>

FILE_md == <<"c", ".", "m", "d">>

\* The text saveMarkdownPrompt writes before and after the content
MD_Header == <<"#", " ", "F", "o", "r", "m", "a", "t", "t", "e", "d", " ", "P", "r", "o", "m",
    "p", "t", "\n", "\n", "#", "#", " ", "C", "o", "n", "t", "e", "n", "t", "\n", "\n">>

MD_Footer == <<"\n", "\n", "-", "-", "-", "\n", "*", "G", "e", "n", "e", "r", "a", "t", "e", "d",
    " ", "b", "y", " ", "M", "u", "l", "t", "i", "M", "i", "n", "d", " ", "C", "o", "n", "t",
    "e", "x", "t", " ", "T", "r", "a", "n", "s", "f", "e", "r", "*", "\n">>

\* filePath.split('.').pop()
FileExtension(filePath) == LET pieces == Split(filePath, ".") IN pieces[Len(pieces)]

\* fs.readFile(filePath, 'utf-8')
readFile(disk, filePath) ==
  IF filePath \in DOMAIN disk THEN Ok(disk[filePath])
  ELSE Throw("Error", "ENOENT: no such file or directory")

\* loadJsonConversation once readFile has settled: JSON.parse, then the
\* tests of the shape of the document
loadJsonConversation(read) ==
  IF read.threw THEN read
  ELSE IF read.value.kind # "json"
  THEN Throw("SyntaxError", "Unexpected token in JSON at position 0")
  ELSE LET data == read.value.doc
       IN CASE data.kind = "array" -> Ok(data.items)
            [] data.kind = "null" ->
                 Throw("TypeError", "Cannot read properties of null (reading 'messages')")
            [] data.kind \in {"messagesKey", "conversationKey"} -> Ok(data.items)
            [] OTHER ->
                 Throw("Error", "Invalid JSON structure. Expected list of messages or dict with 'messages' key.")

\* The for loop of loadTextConversation / loadMarkdownConversation from
\* line i on, and the flush after it
RECURSIVE ParsedMessages(_, _, _, _, _, _)
ParsedMessages(format, lines, i, messages, currentRole, currentContent) ==
  IF i >= Len(lines) THEN Flush(messages, currentRole, currentContent)
  ELSE IF IsPrefixLine(format, lines[i + 1])
  THEN ParsedMessages(format, lines, i + 1,
                      Flush(messages, currentRole, currentContent),
                      RoleOfLine(format, lines[i + 1]),
                      <<PrefixLineText(lines[i + 1])>>)
  ELSE ParsedMessages(format, lines, i + 1, messages, currentRole,
                      Append(currentContent, lines[i + 1]))

\* loadTextConversation / loadMarkdownConversation once readFile has settled
loadLinesConversation(format, read) ==
  IF read.threw THEN read
  ELSE Ok(ParsedMessages(format, FileLines(format, read.value.text), 0, <<>>, "null",
                         <<>>))

\* The format loadConversationFromFile switches on
ResolvedFormat(filePath, formatType) ==
  IF formatType = "auto" THEN detectFileFormat(FileExtension(filePath)) ELSE formatType

SupportedFormats == {"json", "txt", "markdown"}

\* loadConversationFromFile once readFile has settled. The loaders are
\* returned without await, so their rejection is the rejection of the call.
loadConversationFromFile(filePath, formatType, read) ==
  IF ResolvedFormat(filePath, formatType) = "json" THEN loadJsonConversation(read)
  ELSE loadLinesConversation(ResolvedFormat(filePath, formatType), read)

\* The file content saveFormattedPrompt hands to fs.writeFile
SavedContent(content, formatType) ==
  CASE formatType = "json" ->
         [kind |-> "json",
          doc |-> [kind |-> "prompt", prompt |-> content,
                   metadata |-> [created_at |-> Now, format |-> "json",
                                 length |-> Len(content)]]]
    [] formatType = "markdown" -> [kind |-> "text", text |-> MD_Header \o content \o MD_Footer]
    [] OTHER -> [kind |-> "text", text |-> content]

\* saveFormattedPrompt with a catch block that swallows the error
saveCatch_swallow(outcome) == IF outcome.threw THEN Ok(Undefined) ELSE outcome

\* The catch block of saveFormattedPrompt: the error is logged and rethrown
saveCatch(outcome) == outcome

\* transferContext from the settled load to the await of the adapter
\* lookup: the locals, or the exception that leaves the call
FileTransferBegin(call, loaded) ==
  LET extraction == extractContext(loaded.value, call.lastN, call.smartExtraction)
      summarization ==
        IF call.includeSummary
        THEN summarizeContext(extraction.value, call.summaryType)
        ELSE summarizeContext(SliceFrom(extraction.value, -1), "concise")
  IN IF loaded.threw THEN loaded
     ELSE IF extraction.threw THEN extraction
     ELSE IF summarization.threw THEN summarization
     ELSE Ok([summary |-> summarization.value])

\* Files and calls of the model
FileTranscripts ==
  {<<>>,
   <<[role |-> "user", first |-> CT_hello, more |-> <<>>]>>,
   <<[role |-> "system", first |-> CT_hiThere, more |-> <<CT_more>>],
     [role |-> "user", first |-> CT_hello, more |-> <<>>]>>}

JsonDocuments ==
  {[kind |-> "array", items |-> <<>>],
   [kind |-> "array", items |-> <<[id |-> 1, role |-> "user", content |-> CT_hi]>>],
   [kind |-> "array",
    items |-> <<[id |-> 1, role |-> "system", content |-> CT_Note],
                [id |-> 2, role |-> "user", content |-> CT_hi]>>],
   [kind |-> "array", items |-> <<ShapelessMessage>>],
   [kind |-> "messagesKey", items |-> <<[id |-> 1, role |-> "user", content |-> CT_hi]>>],
   [kind |-> "conversationKey",
    items |-> <<[id |-> 1, role |-> "user", content |-> CT_hi]>>],
   [kind |-> "object", items |-> <<>>],
   [kind |-> "null", items |-> <<>>]}

\* A conversation file: its path and its content; a .json file may hold
\* text that is no JSON
InputFiles ==
  {<<FILE_json, [kind |-> "json", doc |-> d]>> : d \in JsonDocuments}
    \cup {<<FILE_json, [kind |-> "text", text |-> RenderTranscript("txt", t, FALSE)]>> :
            t \in FileTranscripts \ {<<>>}}
    \cup {<<CLI_inputFile, [kind |-> "text", text |-> RenderTranscript("txt", t, n)]>> :
            t \in FileTranscripts, n \in BOOLEAN}
    \cup {<<FILE_md, [kind |-> "text", text |-> RenderTranscript("markdown", t, FALSE)]>> :
            t \in FileTranscripts}

InputPaths == {FILE_json, CLI_inputFile, FILE_md}

\* The file system before the call: one conversation file, or none
Disks == {<<>>} \cup {[p \in {f[1]} |-> f[2]] : f \in InputFiles}

\* The calls of loadConversationFromFile: the format detected, a format
\* outside the three, and a text file read as JSON
LoadCalls ==
  {[op |-> "loadConversationFromFile", filePath |-> p, formatType |-> f] :
     p \in InputPaths, f \in {"auto", "xml"}}
    \cup {[op |-> "loadConversationFromFile", filePath |-> CLI_inputFile,
           formatType |-> "json"]}

SaveCalls ==
  [op : {"saveFormattedPrompt"}, content : {CT_hi}, outputFile : {CLI_outputFile},
   formatType : {"txt", "json", "markdown", "xml"}]

TransferCalls ==
  [op : {"transferContext"}, fromModel : {MODEL_chatgpt},
   toModel : {MODEL_Claude3, MODEL_MyModel}, inputFile : InputPaths,
   outputFile : {CLI_outputFile}, lastN : {1, DefaultLastN}, includeSummary : BOOLEAN,
   summaryType : {"concise"}, smartExtraction : {TRUE}, outputFormat : {"txt", "json"}]

InitFile ==
  /\ flDisk \in Disks
  /\ flCall = <<>>
  /\ flPc = "ready"
  /\ flLocals = <<>>
  /\ flAdapter = "none"
  /\ flReads = 0
  /\ flWrites = <<>>
  /\ flReturn = Ok(<<>>)
  /\ CoreIdle
  /\ SdkIdle
  /\ AgentIdle
  /\ InterleavedIdle

\* loadConversationFromFile(filePath, formatType): a format outside the
\* three throws in the try block and the catch block rethrows; otherwise
\* the loader is called and awaits fs.readFile
FileLoadConversation ==
  /\ flPc = "ready"
  /\ \E call \in LoadCalls :
       /\ flCall' = call
       /\ IF ResolvedFormat(call.filePath, call.formatType) \in SupportedFormats
          THEN /\ flPc' = "awaitRead"
               /\ flReads' = flReads + 1
               /\ UNCHANGED flReturn
          ELSE /\ flPc' = "threw"
               /\ flReturn' = Throw("Error", <<"Unsupported format: ", call.formatType>>)
               /\ UNCHANGED flReads
  /\ UNCHANGED <<flDisk, flLocals, flAdapter, flWrites, coreVars, sdkVars, agVars, icVars>>

\* saveFormattedPrompt(content, outputFile, formatType): the save method
\* of the format is called and awaits fs.writeFile
FileSaveFormattedPrompt ==
  /\ flPc = "ready"
  /\ \E call \in SaveCalls :
       /\ flCall' = call
       /\ flWrites' = Append(flWrites,
                             [path |-> call.outputFile,
                              content |-> SavedContent(call.content, call.formatType),
                              outcome |-> "pending"])
  /\ flPc' = "awaitWrite"
  /\ UNCHANGED <<flDisk, flLocals, flAdapter, flReads, flReturn, coreVars, sdkVars, agVars, icVars>>

\* transferContext(...): loadConversationFromFile(inputFile) is awaited,
\* which awaits fs.readFile
FileTransferContext ==
  /\ flPc = "ready"
  /\ flCall' \in TransferCalls
  /\ flPc' = "awaitRead"
  /\ flReads' = flReads + 1
  /\ UNCHANGED <<flDisk, flLocals, flAdapter, flWrites, flReturn, coreVars, sdkVars, agVars, icVars>>

\* fs.readFile settles. loadConversationFromFile returns the messages or
\* rejects; transferContext goes on with extraction and summary up to the
\* adapter lookup, or rejects with the exception of the step that threw.
FileReadReply ==
  /\ flPc = "awaitRead"
  /\ LET path == IF flCall.op = "transferContext" THEN flCall.inputFile
                 ELSE flCall.filePath
         formatType == IF flCall.op = "transferContext" THEN "auto"
                       ELSE flCall.formatType
         loaded == loadConversationFromFile(path, formatType, readFile(flDisk, path))
     IN IF flCall.op = "transferContext"
        THEN LET begun == FileTransferBegin(flCall, loaded)
             IN IF begun.threw
                THEN /\ flPc' = "threw"
                     /\ flReturn' = begun
                     /\ UNCHANGED flLocals
                ELSE /\ flPc' = "awaitAdapter"
                     /\ flLocals' = begun.value
                     /\ UNCHANGED flReturn
        ELSE /\ flPc' = IF loaded.threw THEN "threw" ELSE "returned"
             /\ flReturn' = loaded
             /\ UNCHANGED flLocals
  /\ UNCHANGED <<flDisk, flCall, flAdapter, flReads, flWrites, coreVars, sdkVars, agVars, icVars>>

\* The remote side answers the adapter lookup of transferContext:
\* formatForTargetModel returns the prompt and saveFormattedPrompt is
\* awaited, or formatForTargetModel rejects and so does transferContext
FileAdapterReply ==
  /\ flPc = "awaitAdapter"
  /\ \E outcome \in AdapterOutcomes :
       LET formatted == formatForTargetModel(flCall.toModel, flLocals.summary,
                                             flCall.fromModel, <<>>, outcome)
       IN /\ flAdapter' = outcome
          /\ IF formatted.threw
             THEN /\ flPc' = "threw"
                  /\ flReturn' = formatted
                  /\ UNCHANGED <<flLocals, flWrites>>
             ELSE /\ flPc' = "awaitWrite"
                  /\ flLocals' = Spread(flLocals, [formattedPrompt |-> formatted.value])
                  /\ flWrites' =
                       Append(flWrites,
                              [path |-> flCall.outputFile,
                               content |-> SavedContent(formatted.value,
                                                        flCall.outputFormat),
                               outcome |-> "pending"])
                  /\ UNCHANGED flReturn
  /\ UNCHANGED <<flDisk, flCall, flReads, coreVars, sdkVars, agVars, icVars>>

\* fs.writeFile settles. Resolved: the file holds the content and
\* saveFormattedPrompt returns (transferContext returns the prompt).
\* Rejected: the catch block of saveFormattedPrompt rethrows.
FileWriteReply ==
  /\ flPc = "awaitWrite"
  /\ \E outcome \in {"resolved", "rejected"} :
       LET write == flWrites[Len(flWrites)]
           saved == saveCatch(IF outcome = "resolved" THEN Ok(Undefined)
                              ELSE Throw("Error", "EACCES: permission denied"))
       IN /\ flWrites' = [flWrites EXCEPT ![Len(flWrites)].outcome = outcome]
          /\ flDisk' = IF outcome = "resolved"
                       THEN Spread(flDisk, [p \in {write.path} |-> write.content])
                       ELSE flDisk
          /\ flPc' = IF saved.threw THEN "threw" ELSE "returned"
          /\ flReturn' = IF saved.threw \/ flCall.op = "saveFormattedPrompt" THEN saved
                         ELSE Ok(flLocals.formattedPrompt)
  /\ UNCHANGED <<flCall, flLocals, flAdapter, flReads, coreVars, sdkVars, agVars, icVars>>

NextFile ==
  \/ FileLoadConversation
  \/ FileSaveFormattedPrompt
  \/ FileTransferContext
  \/ FileReadReply
  \/ FileAdapterReply
  \/ FileWriteReply

SpecFile == InitFile /\ [][NextFile]_vars

\* ------------------------------------------------------------------------
\* ContextTransferAPI: calls of transferContextAPI and
\* validateConversationFormat entered on one instance while earlier calls
\* are suspended at the adapter lookup or a capability lookup
\* ------------------------------------------------------------------------
\* Requests of the interleaved calls: one that reports capabilities, one
\* without metadata and one that fails (a path)
InterleavedRequests == BatchRequests \ {NullRequest}

InterleavedDatas == {r.conversationData : r \in InterleavedRequests}

InitInterleaved ==
  /\ icManagerConfig = ManagerConfig
  /\ icCalls = <<>>
  /\ CoreIdle
  /\ SdkIdle
  /\ AgentIdle
  /\ FileIdle

\* The locals of a resumed call taken from the call that reached the same
\* await last
ResumedCall_shared(calls, c) ==
  calls[CHOOSE k \in 1..Len(calls) :
          /\ calls[k].pc = calls[c].pc
          /\ \A j \in (k + 1)..Len(calls) : calls[j].pc # calls[c].pc]

\* The activation a call is resumed with: its own arguments and locals
ResumedCall(calls, c) == calls[c]

\* A call as it is entered; overlapped: an earlier call is suspended
EnteredCall(op, args, pc, locals, result) ==
  [op |-> op, args |-> args, given |-> args, pc |-> pc, locals |-> locals,
   response |-> <<>>, env |-> NoEnv, result |-> result,
   overlapped |-> \E k \in 1..Len(icCalls) : icCalls[k].pc # "returned"]

\* transferContextAPI is entered: it runs to the await of the adapter
\* lookup, or returns the failure result
InterleavedCallTransfer ==
  /\ Len(icCalls) < MaxInterleavedCalls
  /\ \E request \in InterleavedRequests :
       LET begun == TransferBegin(request.sourceModel, request.targetModel,
                                  request.conversationData, request.options)
       IN icCalls' =
            Append(icCalls,
                   IF begun.threw
                   THEN EnteredCall("transfer", request, "returned", <<>>,
                                    transferCatch(begun))
                   ELSE EnteredCall("transfer", request, "awaitAdapter", begun.value,
                                    Ok(<<>>)))
  /\ UNCHANGED <<icManagerConfig, coreVars, sdkVars, agVars, flVars>>

\* validateConversationFormat has no await: it returns when it is called
InterleavedCallValidate ==
  /\ Len(icCalls) < MaxInterleavedCalls
  /\ \E data \in InterleavedDatas :
       icCalls' = Append(icCalls,
                         EnteredCall("validate", data, "returned", <<>>,
                                     validateConversationFormat(data)))
  /\ UNCHANGED <<icManagerConfig, coreVars, sdkVars, agVars, flVars>>

\* The remote side answers the adapter lookup of call c
InterleavedAdapterReply ==
  \E c \in 1..Len(icCalls), outcome \in AdapterOutcomes :
    LET call == ResumedCall(icCalls, c)
        formatted == formatForTargetModel(call.locals.targetModel, call.locals.summary,
                                          call.locals.sourceModel,
                                          call.locals.formattingOptions, outcome)
        response == TransferResponse(call.locals, formatted.value)
    IN /\ icCalls[c].pc = "awaitAdapter"
       /\ icCalls' =
            [icCalls EXCEPT
               ![c].env.adapter = outcome,
               ![c].response = IF formatted.threw THEN <<>> ELSE response,
               ![c].result = IF formatted.threw THEN transferCatch(formatted)
                             ELSE IF Truthy(call.locals.finalOptions, "includeMetadata")
                             THEN Ok(<<>>)
                             ELSE Ok(response),
               ![c].pc = IF ~formatted.threw
                            /\ Truthy(call.locals.finalOptions, "includeMetadata")
                         THEN "awaitSourceInfo"
                         ELSE "returned"]
       /\ UNCHANGED <<icManagerConfig, coreVars, sdkVars, agVars, flVars>>

\* getModelInfo(sourceModel) returns to call c
InterleavedSourceInfoReply ==
  \E c \in 1..Len(icCalls), outcome \in InfoOutcomes :
    LET call == ResumedCall(icCalls, c)
    IN /\ icCalls[c].pc = "awaitSourceInfo"
       /\ icCalls' =
            [icCalls EXCEPT
               ![c].env.source = outcome,
               ![c].locals =
                 Spread(icCalls[c].locals,
                        [sourceInfo |-> getModelInfo(call.locals.sourceModel, outcome)]),
               ![c].pc = "awaitTargetInfo"]
       /\ UNCHANGED <<icManagerConfig, coreVars, sdkVars, agVars, flVars>>

\* getModelInfo(targetModel) returns to call c, which completes its
\* response and returns it
InterleavedTargetInfoReply ==
  \E c \in 1..Len(icCalls), outcome \in InfoOutcomes :
    LET call == ResumedCall(icCalls, c)
        response == WithCapabilities(call.response, call.locals.sourceInfo,
                                     getModelInfo(call.locals.targetModel, outcome))
    IN /\ icCalls[c].pc = "awaitTargetInfo"
       /\ icCalls' = [icCalls EXCEPT ![c].env.target = outcome,
                                     ![c].response = response,
                                     ![c].result = Ok(response),
                                     ![c].pc = "returned"]
       /\ UNCHANGED <<icManagerConfig, coreVars, sdkVars, agVars, flVars>>

NextInterleaved ==
  \/ InterleavedCallTransfer
  \/ InterleavedCallValidate
  \/ InterleavedAdapterReply
  \/ InterleavedSourceInfoReply
  \/ InterleavedTargetInfoReply

SpecInterleaved == InitInterleaved /\ [][NextInterleaved]_vars

\* ------------------------------------------------------------------------
\* Properties of extraction (SpecExtract)
\* ------------------------------------------------------------------------
\* The positions (ids) of the returned messages, in the order returned
ReturnedIds(out) == [k \in 1..Len(out) |-> out[k].id]

\* C3: extractContext returns a subsequence of its input: every returned
\* message is the input message at its position, positions strictly
\* increase (order kept, no position twice), and the output is no longer
\* than the input; for every lastN and both extraction modes.
ExtractIsSubsequence ==
  exPc = "returned" =>
    /\ ~exOut.threw
    /\ Len(exOut.value) <= Len(exMessages)
    /\ \A k \in 1..Len(exOut.value) :
         /\ exOut.value[k].id \in 1..Len(exMessages)
         /\ exOut.value[k] = exMessages[exOut.value[k].id]
    /\ \A j, k \in 1..Len(exOut.value) :
         j < k => exOut.value[j].id < exOut.value[k].id

\* Smart extraction kept two important earlier messages, skipped at least
\* one message, and appended recent ones.
ExtractIsSubsequenceWitness ==
  /\ exPc = "returned"
  /\ exSmart
  /\ exLastN = 2
  /\ Len(exMessages) = 4
  /\ Len(exOut.value) = 2
  /\ ReturnedIds(exOut.value) = <<1, 4>>

\* C4 as stated: without smart extraction the result is exactly the last
\* min(lastN, n) messages, for every lastN >= 0, lastN = 0 included.
NonSmartReturnsLastMin ==
  (exPc = "returned" /\ ~exSmart /\ exLastN >= 0) =>
    LET n == Len(exMessages)
        c == Min(exLastN, n)
    IN /\ ~exOut.threw
       /\ exOut.value = SubSeq(exMessages, n - c + 1, n)

\* ------------------------------------------------------------------------
\* Properties of the summaries (SpecSummary)
\* ------------------------------------------------------------------------
\* C8: summarizeContext of an empty list is the fixed sentence, whatever
\* the summary type.
EmptySummaryIsSentinel ==
  (smPc = "returned" /\ Len(smMessages) = 0) => smOut = Ok(STR_NoContext)

EmptySummaryIsSentinelWitness ==
  /\ smPc = "returned"
  /\ Len(smMessages) = 0
  /\ smType = "structured"
  /\ smOut.value = STR_NoContext

\* The text of a summary line after its "<Role>: " label
ContentPart(line) ==
  LET labels == {j \in 1..(Len(line) - 1) : line[j] = ":" /\ line[j + 1] = " "}
      k == CHOOSE j \in labels : \A h \in labels : j <= h
  IN SubSeq(line, k + 2, Len(line))

KnownRole(m) == m.role \in Roles

\* C9: in a concise summary (also chosen for an unknown summary type) the
\* content part of every emitted line is at most 503 characters: the
\* content itself when it has at most 500 characters, else its first 500
\* characters followed by "...".
ConciseContentBounded ==
  (smPc = "returned" /\ smType \notin {"structured", "detailed"}
     /\ \E k \in 1..Len(smMessages) : KnownRole(smMessages[k])) =>
    LET emitted == SelectSeq(smMessages, KnownRole)
        lines == Split(smOut.value, "\n")
    IN /\ ~smOut.threw
       /\ Len(lines) = Len(emitted)
       /\ \A k \in 1..Len(lines) :
            LET part == ContentPart(lines[k])
                content == emitted[k].content
            IN /\ Len(part) <= 503
               /\ Len(content) <= 500 => part = content
               /\ Len(content) > 500 =>
                    part = SubSeq(content, 1, 500) \o <<".", ".", ".">>

ConciseContentBoundedWitness ==
  /\ smPc = "returned"
  /\ smType = "concise"
  /\ Len(smMessages) = 2
  /\ smMessages[1].role = "user"
  /\ Len(smMessages[1].content) = 501
  /\ smMessages[2].role = "assistant"
  /\ Len(smMessages[2].content) = 500
  /\ Len(smOut.value) = (6 + 503) + 1 + (11 + 500)

\* The header lines of the two blocks of a structured summary
HasSystemContextBlock(summary) == Split(summary, "\n")[1] = STR_SystemContext

HasConversationFlowBlock(summary) ==
  \E k \in 1..Len(Split(summary, "\n")) : Split(summary, "\n")[k] = STR_ConversationFlow

\* C10: a structured summary of a non-empty list has the "System Context:"
\* block exactly when the list has a system message, and always has the
\* "Conversation Flow:" block.
StructuredSystemBlockIff ==
  (smPc = "returned" /\ smType = "structured" /\ Len(smMessages) > 0) =>
    /\ ~smOut.threw
    /\ HasSystemContextBlock(smOut.value)
         <=> (\E k \in 1..Len(smMessages) : smMessages[k].role = "system")
    /\ HasConversationFlowBlock(smOut.value)

StructuredSystemBlockIffWitness ==
  /\ smPc = "returned"
  /\ smType = "structured"
  /\ Len(smMessages) = 2
  /\ smMessages[1].role = "user"
  /\ smMessages[2].role = "system"
  /\ HasSystemContextBlock(smOut.value)
  /\ HasConversationFlowBlock(smOut.value)

\* The labels an entry of a summary starts with, over the three strategies
EntryLabels ==
  {STR_UserColon, STR_AssistantColon, STR_SystemColon, STR_UserMessage,
   STR_AssistantResponse, STR_SystemConfiguration, STR_Bullet}

\* The number of entries of a summary: its lines that start with a label
SummaryEntries(summary) ==
  LET lines == Split(summary, "\n")
  IN Cardinality({k \in 1..Len(lines) :
                    \E label \in EntryLabels : StartsWith(lines[k], label)})

\* C12 as stated: every message handed to summarizeContext, whatever its
\* role, contributes one entry to the summary, for the concise, the
\* detailed and the structured strategy.
EveryMessageHasSummaryEntry ==
  (smPc = "returned" /\ Len(smMessages) > 0) =>
    /\ ~smOut.threw
    /\ SummaryEntries(smOut.value) = Len(smMessages)

\* ------------------------------------------------------------------------
\* Properties of the transcript parsers (SpecParser)
\* ------------------------------------------------------------------------
\* The role/content pairs a transcript stands for: the text after the colon
\* of the prefix line, then the continuation lines, newline-joined, trimmed.
TranscriptPairs(transcript) ==
  [k \in 1..Len(transcript) |->
     [role |-> transcript[k].role,
      content |-> Trim(Join(<<transcript[k].first>> \o transcript[k].more, <<"\n">>))]]

\* C7 as stated: parsing a text or markdown transcript written with the
\* documented prefixes returns the original role/content pairs, the text
\* after the colon of the prefix line included.
ParseRecoversTranscript ==
  psPc = "returned" => psMessages = TranscriptPairs(psTranscript)

\* ------------------------------------------------------------------------
\* Properties of the ContextTransferAPI (Spec)
\* ------------------------------------------------------------------------
\* A failure result: success is false, error and errorType are carried,
\* apart from the keys in others
IsFailureResult(result, others) ==
  /\ DOMAIN result \ others = {"success", "error", "errorType"}
  /\ result.success = FALSE

WellFormedArray(data) ==
  /\ data.kind = "array"
  /\ \A k \in 1..Len(data.items) :
       data.items[k].role \in Roles /\ data.items[k].content # Undefined

\* C2: for a well-formed message array, a transfer whose adapter lookup
\* fails returns success = true with the prompt of the generic formatter:
\* the introduction naming the target and the source, the summary, the
\* continuation instruction.
UnknownTargetUsesGeneric ==
  (trPc = "returned" /\ WellFormedArray(trArgs.conversationData)
     /\ trEnv.adapter = "notFound") =>
    /\ ~trResult.threw
    /\ trResult.value.success = TRUE
    /\ StartsWith(trResult.value.formattedPrompt,
                  GEN_YouAre \o trArgs.targetModel \o GEN_AnAssistant
                    \o trArgs.sourceModel \o GEN_OnConversation \o trLocals.summary
                    \o GEN_Continue)
    /\ trResult.value.metadata.promptLength = Len(trResult.value.formattedPrompt)

UnknownTargetUsesGenericWitness ==
  /\ apiCall = "transfer"
  /\ trPc = "returned"
  /\ trArgs.conversationData.kind = "array"
  /\ Len(trArgs.conversationData.items) = 2
  /\ WellFormedArray(trArgs.conversationData)
  /\ trArgs.targetModel = MODEL_MyModel
  /\ trEnv = [adapter |-> "notFound", source |-> "rejected", target |-> "answered"]
  /\ trResult.value.success
  /\ Includes(trResult.value.formattedPrompt, STR_UserColon \o CT_hi)

\* The result one call of transferContextAPI returns for a request, given
\* the answers of the remote side
SingleTransferResult(request, env) ==
  LET begun == TransferBegin(request.sourceModel, request.targetModel,
                             request.conversationData, request.options)
      locals == begun.value
      formatted == formatForTargetModel(locals.targetModel, locals.summary,
                                        locals.sourceModel, locals.formattingOptions,
                                        env.adapter)
      response == TransferResponse(locals, formatted.value)
  IN IF begun.threw THEN TransferFailure(begun)
     ELSE IF formatted.threw THEN TransferFailure(formatted)
     ELSE IF Truthy(locals.finalOptions, "includeMetadata")
     THEN WithCapabilities(response, getModelInfo(locals.sourceModel, env.source),
                           getModelInfo(locals.targetModel, env.target))
     ELSE response

\* A result of a batch without its index tag
Untagged(result) ==
  LET metadata == [k \in DOMAIN result.metadata \ {"transferIndex"} |->
                     result.metadata[k]]
  IN IF DOMAIN metadata = {}
     THEN [k \in DOMAIN result \ {"metadata"} |-> result[k]]
     ELSE [result EXCEPT !.metadata = metadata]

\* C5: batchTransfer returns totalTransfers = number of requests =
\* results.length, successfulTransfers + failedTransfers = totalTransfers,
\* successfulTransfers = number of successful results, success =
\* (failedTransfers = 0), and results[i] is the result of request i tagged
\* with transferIndex = i.
BatchCountsAndIndices ==
  btPc = "returned" =>
    LET r == btReturn.value
        n == Len(btTransfers)
    IN /\ r.totalTransfers = n
       /\ Len(r.results) = n
       /\ r.successfulTransfers + r.failedTransfers = r.totalTransfers
       /\ r.successfulTransfers = Cardinality({k \in 1..n : r.results[k].success})
       /\ r.success = (r.failedTransfers = 0)
       /\ \A k \in 1..n :
            /\ r.results[k].metadata.transferIndex = k - 1
            /\ btTransfers[k] # NullRequest =>
                 Untagged(r.results[k]) = SingleTransferResult(btTransfers[k], btEnv[k])

\* One failing and two succeeding requests: 2 successful, 1 failed, 3 results
BatchCountsAndIndicesWitness ==
  /\ btPc = "returned"
  /\ Len(btTransfers) = 3
  /\ btTransfers[2] # NullRequest
  /\ btTransfers[2].conversationData.kind = "string"
  /\ btReturn.value.successfulTransfers = 2
  /\ btReturn.value.failedTransfers = 1
  /\ Len(btReturn.value.results) = 3
  /\ ~btReturn.value.success
  /\ btReturn.value.results[3].metadata.transferIndex = 2

\* C6: batchTransfer handles its requests one at a time in list order:
\* transferContextAPI is called for request i only when the results of all
\* earlier requests have been pushed, a failed request does not end the
\* loop, and each result is what a single transfer of that request
\* returns, apart from the index tag.
BatchIsSequential ==
  /\ \A k \in 1..Len(btCalls) :
       /\ btCalls[k] <= Len(btResults)
       /\ \A j \in 1..(k - 1) : btCalls[j] < btCalls[k]
  /\ btPc = "awaitTransfer" =>
       /\ Len(btCalls) > 0
       /\ btCalls[Len(btCalls)] = btI
       /\ Len(btResults) = btI
       /\ trArgs = btTransfers[btI + 1]
  /\ btPc \in {"loop", "returned"} => Len(btResults) = btI
  /\ btPc = "returned" =>
       /\ btI = Len(btTransfers)
       /\ \A k \in 1..Len(btTransfers) :
            btTransfers[k] # NullRequest =>
              /\ \E c \in 1..Len(btCalls) : btCalls[c] = k - 1
              /\ Untagged(btResults[k]) = SingleTransferResult(btTransfers[k], btEnv[k])
  /\ (apiCall = "transfer" /\ trPc = "returned") =>
       trResult.value = SingleTransferResult(trArgs, trEnv)

\* A batch whose first request failed went on to the second and third ones
BatchIsSequentialWitness ==
  /\ btPc = "returned"
  /\ Len(btTransfers) = 3
  /\ ~btResults[1].success
  /\ btResults[2].success
  /\ btResults[3].success
  /\ btCalls = <<0, 1, 2>>
  /\ btEnv[3].target = "answered"

\* C11: when validateConversationFormat accepts a message list, every
\* message is counted in exactly one of userMessages, assistantMessages,
\* systemMessages and unknownMessages (unknown: the role is none of the
\* three), totalMessages is the sum of the four, hasSystemContext holds
\* exactly when systemMessages > 0, and [{role: user, content: "hi"}] is
\* reported as 1, 1, 0, 0, 0, false.
ValidateCountsPartition ==
  (apiCall = "validate" /\ ~vlReturn.threw /\ vlReturn.value.success) =>
    LET a == vlReturn.value.analysis
        messages == processConversationData(vlData).value
        n == Len(messages)
    IN /\ a.totalMessages = n
       /\ a.userMessages = Cardinality({k \in 1..n : messages[k].role = "user"})
       /\ a.assistantMessages = Cardinality({k \in 1..n : messages[k].role = "assistant"})
       /\ a.systemMessages = Cardinality({k \in 1..n : messages[k].role = "system"})
       /\ a.unknownMessages =
            Cardinality({k \in 1..n : messages[k].role \notin {"user", "assistant", "system"}})
       /\ a.totalMessages
            = a.userMessages + a.assistantMessages + a.systemMessages + a.unknownMessages
       /\ a.hasSystemContext <=> a.systemMessages > 0
       /\ (vlData.kind = "array" /\ n = 1 /\ messages[1].role = "user"
             /\ messages[1].content = CT_hi) =>
            /\ a.totalMessages = 1
            /\ a.userMessages = 1
            /\ a.assistantMessages = 0
            /\ a.systemMessages = 0
            /\ a.unknownMessages = 0
            /\ a.hasSystemContext = FALSE

\* A system message and a message of an unknown role were validated
ValidateCountsPartitionWitness ==
  /\ apiCall = "validate"
  /\ vlData.kind = "array"
  /\ Len(vlData.items) = 2
  /\ vlData.items[1].role = "system"
  /\ vlData.items[2].role = UnknownRole
  /\ vlReturn.value.success
  /\ vlReturn.value.analysis.totalMessages = 2
  /\ vlReturn.value.analysis.systemMessages = 1
  /\ vlReturn.value.analysis.unknownMessages = 1
  /\ vlReturn.value.analysis.hasSystemContext

\* s.endsWith(p)
EndsWith(s, p) ==
  Len(p) <= Len(s) /\ SubSeq(s, Len(s) - Len(p) + 1, Len(s)) = p

\* The attribution footer naming both models and the SDK
AttributionFooter(sourceModel, targetModel) ==
  <<"\n", "\n", "-", "-", "-", "\n">>
    \o <<"C", "o", "n", "t", "e", "x", "t", " ", "t", "r", "a", "n", "s", "f", "e", "r", "r",
         "e", "d", " ", "f", "r", "o", "m", " ">>
    \o sourceModel \o <<" ", "t", "o", " ">> \o targetModel
    \o <<" ", "u", "s", "i", "n", "g", " ", "M", "u", "l", "t", "i", "M", "i", "n", "d", " ",
         "S", "D", "K">>

\* The value the call resolves the includeMetadata option to
IncludeMetadataOf(request) == Truthy(finalOptionsOf(request.options), "includeMetadata")

\* C13 as stated: a transfer that falls back to the generic formatter ends
\* its prompt with the attribution footer if and only if its
\* includeMetadata option is true; with includeMetadata = false the prompt
\* has no footer.
GenericFooterIffIncludeMetadata ==
  (trPc = "returned" /\ trEnv.adapter \in {"notFound", "formatThrows"}) =>
    /\ ~trResult.threw
    /\ trResult.value.success
    /\ EndsWith(trResult.value.formattedPrompt,
                AttributionFooter(trArgs.sourceModel, trArgs.targetModel))
         <=> IncludeMetadataOf(trArgs)

\* The include-X hints of the transfer options
HintKeys ==
  {"includeCodeContext", "includeReasoning", "includeSafety", "includeCreativity",
   "includeExamples", "includeStepByStep", "includeMultimodal", "includeWebSearch"}

\* C14 as stated: when an adapter is found, its formatContext is called
\* with the summary, the source model name and an options object holding
\* every include-X hint the caller set, with the caller's value.
HintsReachAdapter ==
  trAdapterArgs # <<>> =>
    /\ trAdapterArgs.summary = trLocals.summary
    /\ trAdapterArgs.sourceModel = trArgs.sourceModel
    /\ \A k \in HintKeys \cap DOMAIN trArgs.options.set :
         /\ k \in DOMAIN trAdapterArgs.options
         /\ trAdapterArgs.options[k] = trArgs.options.set[k]

\* metadata only on a successful result; a failed one carries error and
\* errorType
MetadataOnlyOnSuccess(result) ==
  /\ "metadata" \in DOMAIN result => result.success
  /\ ~result.success =>
       /\ {"error", "errorType"} \subseteq DOMAIN result
       /\ "metadata" \notin DOMAIN result

\* C15 as stated: every result returned by transferContextAPI or pushed to
\* the results of batchTransfer has metadata only if success is true.
ResultsCarryMetadataOnlyOnSuccess ==
  /\ trPc = "returned" => MetadataOnlyOnSuccess(trResult.value)
  /\ \A k \in 1..Len(btResults) : MetadataOnlyOnSuccess(btResults[k])

\* C16 as stated: a transfer given a path string as conversationData loads
\* the file and returns success = true.
PathTransferSucceeds ==
  (trPc = "returned" /\ trArgs.conversationData.kind = "string") =>
    /\ ~trResult.threw
    /\ trResult.value.success

\* C17: a successful transfer's metadata has modelCapabilities exactly
\* when the call's includeMetadata is true, and then with a source and a
\* target record: the remote record of a model whose lookup was answered,
\* and for a model whose lookup failed the default record (text, 8000,
\* code, no images, no tools), whatever the other lookup did.
CapabilitiesIffIncludeMetadata ==
  (trPc = "returned" /\ ~trResult.threw /\ trResult.value.success) =>
    LET metadata == trResult.value.metadata
        DefaultRecord(name) ==
          [name |-> name, supportedFormats |-> <<"text">>, maxContextLength |-> 8000,
           supportsCode |-> TRUE, supportsImages |-> FALSE, supportsTools |-> FALSE]
    IN /\ "modelCapabilities" \in DOMAIN metadata <=> IncludeMetadataOf(trArgs)
       /\ IncludeMetadataOf(trArgs) =>
            /\ DOMAIN metadata.modelCapabilities = {"source", "target"}
            /\ trEnv.source \in InfoOutcomes /\ trEnv.target \in InfoOutcomes
            /\ metadata.modelCapabilities.source =
                 (IF trEnv.source = "rejected" THEN DefaultRecord(trArgs.sourceModel)
                  ELSE RemoteCapabilities(trArgs.sourceModel))
            /\ metadata.modelCapabilities.target =
                 (IF trEnv.target = "rejected" THEN DefaultRecord(trArgs.targetModel)
                  ELSE RemoteCapabilities(trArgs.targetModel))

\* The source lookup failed and the target lookup was answered
CapabilitiesIffIncludeMetadataWitness ==
  /\ apiCall = "transfer"
  /\ trPc = "returned"
  /\ trEnv = [adapter |-> "formatted", source |-> "rejected", target |-> "answered"]
  /\ trResult.value.success
  /\ trResult.value.metadata.modelCapabilities.source.maxContextLength = 8000
  /\ trResult.value.metadata.modelCapabilities.source.name = MODEL_chatgpt
  /\ trResult.value.metadata.modelCapabilities.target
       = RemoteCapabilities(trArgs.targetModel)

\* The documented defaults of the transfer options
DocumentedDefaults ==
  [lastN |-> 5, includeSummary |-> TRUE, summaryType |-> "concise",
   smartExtraction |-> TRUE, outputFormat |-> "txt", includeMetadata |-> TRUE]

\* The options with every unspecified documented option given explicitly
\* at its default
WithDefaultsGiven(options) ==
  [set |-> [k \in DOMAIN options.set \cup DOMAIN DocumentedDefaults |->
              IF k \in DOMAIN options.set THEN options.set[k] ELSE DocumentedDefaults[k]],
   undef |-> options.undef \ DOMAIN DocumentedDefaults]

\* C18 as stated: a transfer whose caller leaves options unspecified (the
\* key absent, or present with the value undefined) returns what the same
\* transfer returns when those options are given explicitly at their
\* documented defaults lastN = 5, includeSummary = true, summaryType =
\* concise, smartExtraction = true, outputFormat = txt, includeMetadata =
\* true.
UnspecifiedOptionsTakeDefaults ==
  (apiCall = "transfer" /\ trPc = "returned") =>
    /\ ~trResult.threw
    /\ \E source, target \in InfoOutcomes :
         trResult.value =
           SingleTransferResult(
             [trArgs EXCEPT !.options = WithDefaultsGiven(trArgs.options)],
             [adapter |-> trEnv.adapter,
              source |-> IF trEnv.source = "none" THEN source ELSE trEnv.source,
              target |-> IF trEnv.target = "none" THEN target ELSE trEnv.target])

\* For keys that are absent (none present with the value undefined) the
\* result is the one of the defaults given explicitly
AbsentOptionsTakeDefaults ==
  (apiCall = "transfer" /\ trPc = "returned" /\ trArgs.options.undef = {}) =>
    trResult.value =
      SingleTransferResult([trArgs EXCEPT !.options = WithDefaultsGiven(trArgs.options)],
                           trEnv)

\* ------------------------------------------------------------------------
\* Properties of the command line (SpecCli)
\* ------------------------------------------------------------------------
\* The flags that take the following argument as their value
ValueFlags ==
  {Flag.source, Flag.s, Flag.target, Flag.t, Flag.input, Flag.i, Flag.output, Flag.o,
   Flag.lastN, Flag.summaryType, Flag.outputFormat}

\* Position i of args is read as a flag: it is not the value of a
\* value-taking flag read just before it
RECURSIVE IsFlagPosition(_, _)
IsFlagPosition(args, i) ==
  i = 1 \/ ~(IsFlagPosition(args, i - 1) /\ args[i - 1] \in ValueFlags)

\* The positions where one of the flags is given
GivenAt(args, flags) ==
  {i \in 1..Len(args) : IsFlagPosition(args, i) /\ args[i] \in flags}

Given(args, flags) == GivenAt(args, flags) # {}

\* The argument following the last occurrence of one of the flags
\* (Undefined when that occurrence ends the command line)
ValueGiven(args, flags) ==
  LET last == CHOOSE i \in GivenAt(args, flags) : \A j \in GivenAt(args, flags) : j <= i
  IN IF last < Len(args) THEN args[last + 1] ELSE Undefined

\* C19 as stated: a run that gets past --help and the initialization calls
\* exactly one mode, chosen by the first flag given of --list-models,
\* --chrome-config, --validate, --batch; without any of them it makes a
\* direct transfer (or shows the usage when the models are not named). In
\* particular with --validate and no flag of higher priority, validation
\* runs and neither the batch nor a direct transfer.
CliModeByPriority ==
  (cliPc \in {"awaitMode", "awaitClose", "ended"}
     /\ ~Given(cliArgs, {Flag.help, Flag.h})) =>
    LET list == Given(cliArgs, {Flag.listModels})
        chrome == Given(cliArgs, {Flag.chromeConfig})
        validate == Given(cliArgs, {Flag.validate})
        batch == Given(cliArgs, {Flag.batch})
    IN /\ Len(cliModes) = 1
       /\ list => cliModes = <<"listSupportedModels">>
       /\ (~list /\ chrome) => cliModes = <<"generateChromeConfig">>
       /\ (~list /\ ~chrome /\ validate) => cliModes = <<"validateConversation">>
       /\ (~list /\ ~chrome /\ ~validate /\ batch) => cliModes = <<"runBatchTransfer">>
       /\ (~list /\ ~chrome /\ ~validate /\ ~batch) =>
            cliModes \in {<<"runTransfer">>, <<"showHelp">>}

\* The numerals of the natural numbers below 100
IsNumeral(s) == \E n \in 0..99 : NumberToString(n) = s

NumeralValue(s) == CHOOSE n \in 0..99 : NumberToString(n) = s

\* C20: after parseArgs, for every command line: an option with a
\* value-taking flag holds the argument that follows the last occurrence of
\* its flag (lastN the integer that argument denotes; no value when the flag
\* ends the command line), and that argument is not read as a flag; an option with a boolean flag is true when its flag
\* is given (false for --no-smart-extraction and --no-metadata); an option
\* whose flag is not given keeps its default, or no value if it has none.
ParseArgsSetsOptions ==
  cliPc \in {"awaitInitialize", "awaitMode", "awaitClose", "ended", "exited"} =>
    /\ \A key \in {TextFlagKeys[f] : f \in DOMAIN TextFlagKeys} :
         LET flags == {f \in DOMAIN TextFlagKeys : TextFlagKeys[f] = key}
         IN IF Given(cliArgs, flags)
            THEN IF ValueGiven(cliArgs, flags) = Undefined
                 THEN ~HasValue(cliOptions, key)
                 ELSE /\ HasValue(cliOptions, key)
                      /\ cliOptions[key] = ValueGiven(cliArgs, flags)
            ELSE /\ HasValue(cliOptions, key) <=> key \in DOMAIN CliDefaultOptions
                 /\ HasValue(cliOptions, key) => cliOptions[key] = CliDefaultOptions[key]
    /\ IF Given(cliArgs, {Flag.lastN})
       THEN IsNumeral(ValueGiven(cliArgs, {Flag.lastN})) =>
              /\ HasValue(cliOptions, "lastN")
              /\ cliOptions["lastN"] = Num(NumeralValue(ValueGiven(cliArgs, {Flag.lastN})))
       ELSE ~HasValue(cliOptions, "lastN")
    /\ \A key \in {TrueFlagKeys[f] : f \in DOMAIN TrueFlagKeys} :
         LET flags == {f \in DOMAIN TrueFlagKeys : TrueFlagKeys[f] = key}
         IN IF Given(cliArgs, flags)
            THEN HasValue(cliOptions, key) /\ cliOptions[key] = TRUE
            ELSE ~HasValue(cliOptions, key)
    /\ \A key \in {FalseFlagKeys[f] : f \in DOMAIN FalseFlagKeys} :
         LET flags == {f \in DOMAIN FalseFlagKeys : FalseFlagKeys[f] = key}
         IN /\ HasValue(cliOptions, key)
            /\ cliOptions[key] = ~Given(cliArgs, flags)

\* --source --batch was parsed: --batch is the source model, not a flag
ParseArgsSetsOptionsWitness ==
  /\ cliPc = "awaitInitialize"
  /\ cliArgs = <<Flag.source, Flag.batch, Flag.lastN, CLI_10>>
  /\ cliOptions["sourceModel"] = Flag.batch
  /\ ~HasValue(cliOptions, "batch")
  /\ cliOptions["lastN"] = Num(10)
  /\ cliOptions["summaryType"] = CLI_concise

\* ------------------------------------------------------------------------
\* Properties of smart extraction (SpecExtract)
\* ------------------------------------------------------------------------
\* A message is system-role or its content holds one of the keywords
SystemOrKeyword(msg) ==
  \/ msg.role = "system"
  \/ \E keyword \in importantKeywords : Includes(ToLowerCase(msg.content), keyword)

\* The important messages among those before the final lastN
ImportantEarlier(messages, lastN) ==
  SelectSeq(SubSeq(messages, 1, Len(messages) - lastN), SystemOrKeyword)

\* The final c messages of a conversation
FinalMessages(messages, c) == SubSeq(messages, Len(messages) - c + 1, Len(messages))

\* C24 as stated: in smart mode, with more than lastN messages and an
\* important message before the final lastN, extractContext returns exactly
\* lastN messages: the last k = min(2, number of important earlier
\* messages) important earlier messages, then the final lastN - k messages
\* of the conversation; for every lastN >= 1, lastN = 1 and 2 included.
SmartFillsToLastN ==
  (/\ exPc = "returned"
   /\ exSmart
   /\ exLastN >= 1
   /\ Len(exMessages) > exLastN
   /\ Len(ImportantEarlier(exMessages, exLastN)) > 0) =>
    LET important == ImportantEarlier(exMessages, exLastN)
        k == Min(2, Len(important))
    IN /\ ~exOut.threw
       /\ Len(exOut.value) = exLastN
       /\ exOut.value = FinalMessages(important, k)
                          \o FinalMessages(exMessages, exLastN - k)

FinalMessageIsExtracted ==
  (exPc = "returned" /\ Len(exMessages) > 0 /\ exLastN >= 1) =>
    /\ ~exOut.threw
    /\ \E k \in 1..Len(exOut.value) : exOut.value[k] = exMessages[Len(exMessages)]

\* ------------------------------------------------------------------------
\* Properties of a run of the command line (SpecCli)
\* ------------------------------------------------------------------------
\* C28 as stated: a run that reached sdk.initialize() has called sdk.close()
\* when the process ends, on every path: a mode that completed or reported
\* its own failure, and an error caught by run() that exits with code 1.
CliRunAlwaysCloses ==
  (cliPc \in {"ended", "exited"} /\ ~Truthy(cliOptions, "help")) => cliCloseCalls = 1

\* ------------------------------------------------------------------------
\* Properties of MultiMindSDK (SpecSdk)
\* ------------------------------------------------------------------------
\* Every call so far is initialize() or close(), was issued after the calls
\* before it had settled, and no bridge call was rejected
SequentialLifecycleRun ==
  /\ \A c \in 1..Len(sdkCalls) :
       sdkCalls[c].op \in {"initialize", "close"} /\ sdkCalls[c].alone
  /\ \A k \in 1..Len(sdkBridgeLog) : sdkBridgeLog[k].outcome # "rejected"

\* The bridge calls made by call c, in order
BridgeCallsOf(c) == SelectSeq(sdkBridgeLog, LAMBDA e : e.by = c)

\* C21: in a sequence of initialize() and close() calls issued one after
\* another, with the bridge succeeding, no call fails; initBridge is called
\* exactly by the initialize() calls that find the SDK not initialised and
\* closeBridge exactly by the close() calls that find it initialised, so
\* the bridge calls alternate, starting with initBridge; and after
\* initialize() the SDK is initialised, after close() it is not, whatever
\* it was before (a repeated call changes nothing).
SequentialLifecycleAlternates ==
  SequentialLifecycleRun =>
    /\ \A c \in 1..Len(sdkCalls) :
         /\ sdkCalls[c].pc # "threw"
         /\ LET made == BridgeCallsOf(c)
            IN IF sdkCalls[c].op = "initialize" /\ ~sdkCalls[c].initializedAtIssue
               THEN Len(made) = 1 /\ made[1].op = "initBridge"
               ELSE IF sdkCalls[c].op = "close" /\ sdkCalls[c].initializedAtIssue
               THEN Len(made) = 1 /\ made[1].op = "closeBridge"
               ELSE made = <<>>
         /\ c < Len(sdkCalls) =>
              sdkCalls[c + 1].initializedAtIssue = (sdkCalls[c].op = "initialize")
         /\ (c = Len(sdkCalls) /\ sdkCalls[c].pc = "returned") =>
              sdkInitialized = (sdkCalls[c].op = "initialize")
    /\ \A k \in 1..Len(sdkBridgeLog) :
         sdkBridgeLog[k].op = IF k % 2 = 1 THEN "initBridge" ELSE "closeBridge"

\* initialize(), initialize() again and close() have returned, one after
\* another: the bridge was initialised once and closed once.
SequentialLifecycleAlternatesWitness ==
  /\ SequentialLifecycleRun
  /\ Len(sdkCalls) = 3
  /\ sdkCalls[1].op = "initialize"
  /\ sdkCalls[2].op = "initialize"
  /\ sdkCalls[3].op = "close"
  /\ sdkCalls[3].pc = "returned"
  /\ sdkBridgeLog = <<[op |-> "initBridge", by |-> 1, outcome |-> "resolved"],
                      [op |-> "closeBridge", by |-> 3, outcome |-> "resolved"]>>
  /\ ~sdkInitialized

\* C27 as stated: under any interleaving of method calls the bridge is
\* initialised at most once before the next close(): after a call of
\* initBridge that was not rejected, initBridge is not called again before
\* closeBridge is called.
BridgeInitialisedOnce ==
  \A i, j \in 1..Len(sdkBridgeLog) :
    (/\ i < j
     /\ sdkBridgeLog[i].op = "initBridge"
     /\ sdkBridgeLog[i].outcome # "rejected"
     /\ sdkBridgeLog[j].op = "initBridge") =>
      \E k \in (i + 1)..(j - 1) : sdkBridgeLog[k].op = "closeBridge"

\* C29 as stated: a create method returns its sub-client initialised, and
\* an instance whose initialize() failed is not kept in the cache field;
\* stated for create calls issued one after another.
SubClientsReturnedInitialised ==
  (\A c \in 1..Len(sdkCalls) : sdkCalls[c].alone) =>
    \A c \in 1..Len(sdkCalls) :
      /\ (sdkCalls[c].op = "create" /\ sdkCalls[c].pc = "returned") =>
           sdkCalls[c].result \in sdkReady
      /\ (sdkCalls[c].op = "create" /\ sdkCalls[c].pc = "threw") =>
           sdkSubClients[sdkCalls[c].kind] # c

\* ------------------------------------------------------------------------
\* Properties of AdvancedAgent (SpecAgent)
\* ------------------------------------------------------------------------
\* C30 as stated: when addMemory or clearMemory throws because the call of
\* the remote agent failed, the local memory list is as the call found it,
\* as the tool map is when addTool or removeTool throws.
AgentStateKeptOnFailure ==
  agPc = "threw" =>
    /\ agCall.op \in {"addMemory", "clearMemory"} => agMemory = agCall.memory
    /\ agCall.op \in {"addTool", "removeTool"} => agTools = agCall.tools

\* The part of C30 about tools: a failed addTool or removeTool leaves the
\* tool map as it was.
AgentToolsKeptOnFailure ==
  (agPc = "threw" /\ agCall.op \in {"addTool", "removeTool"}) => agTools = agCall.tools

\* ------------------------------------------------------------------------
\* Properties of the file operations (SpecFile)
\* ------------------------------------------------------------------------
\* The conversation file of the call and the format it is read in
CallInputFile == IF flCall.op = "transferContext" THEN flCall.inputFile ELSE flCall.filePath

CallFormat ==
  IF flCall.op = "transferContext" THEN detectFileFormat(FileExtension(flCall.inputFile))
  ELSE ResolvedFormat(flCall.filePath, flCall.formatType)

\* The failures of a load, told from the call and the file system: a format
\* outside the three, no file at the path, text that is no JSON, a JSON
\* document that holds no message list
UnsupportedFormat == CallFormat \notin SupportedFormats

ReadFails == ~UnsupportedFormat /\ CallInputFile \notin DOMAIN flDisk

ParseFails ==
  /\ ~UnsupportedFormat
  /\ ~ReadFails
  /\ CallFormat = "json"
  /\ \/ flDisk[CallInputFile].kind # "json"
     \/ flDisk[CallInputFile].doc.kind \in {"object", "null"}

LoadFails == UnsupportedFormat \/ ReadFails \/ ParseFails

\* A message of the loaded JSON document has no content: the summary throws
SummaryFails ==
  /\ ~LoadFails
  /\ CallFormat = "json"
  /\ \E k \in 1..Len(flDisk[CallInputFile].doc.items) :
       flDisk[CallInputFile].doc.items[k].content = Undefined

WriteFails == flWrites # <<>> /\ flWrites[Len(flWrites)].outcome = "rejected"

\* C22: loadConversationFromFile, saveFormattedPrompt and transferContext
\* (file to file) report a failure by throwing, never by a returned value:
\* an unsupported format, a failed read or a failed parse rejects the load
\* with that error, a failed write rejects the save with the I/O error, and
\* transferContext rejects with the error of the step that failed; a call
\* that meets no failure returns. No read or write is made twice, and when
\* transferContext fails before saving, fs.writeFile was never called and
\* the output path holds no file.
FileFailuresAreThrown ==
  flPc \in {"returned", "threw"} =>
    /\ flReturn.threw = (flPc = "threw")
    /\ flReads <= 1
    /\ Len(flWrites) <= 1
    /\ flCall.op = "loadConversationFromFile" =>
         /\ flReturn.threw = LoadFails
         /\ UnsupportedFormat =>
              flReturn = Throw("Error", <<"Unsupported format: ", flCall.formatType>>)
         /\ ReadFails => flReturn = Throw("Error", "ENOENT: no such file or directory")
         /\ ParseFails => flReturn.errorType \in {"SyntaxError", "TypeError", "Error"}
         /\ flWrites = <<>>
    /\ flCall.op = "saveFormattedPrompt" =>
         /\ flReturn.threw = WriteFails
         /\ WriteFails => flReturn = Throw("Error", "EACCES: permission denied")
         /\ ~WriteFails =>
              flDisk[flCall.outputFile] = SavedContent(flCall.content, flCall.formatType)
    /\ flCall.op = "transferContext" =>
         /\ flReturn.threw =
              (LoadFails \/ SummaryFails \/ flAdapter = "formatRejects" \/ WriteFails)
         /\ ReadFails => flReturn = Throw("Error", "ENOENT: no such file or directory")
         /\ ParseFails => flReturn.errorType \in {"SyntaxError", "TypeError", "Error"}
         /\ SummaryFails => flReturn.errorType = "TypeError"
         /\ WriteFails => flReturn = Throw("Error", "EACCES: permission denied")
         /\ (LoadFails \/ SummaryFails \/ flAdapter = "formatRejects") =>
              /\ flWrites = <<>>
              /\ flCall.outputFile \notin DOMAIN flDisk

\* transferContext has rejected with the SyntaxError of a .json file that
\* holds no JSON, and nothing was written
FileFailuresAreThrownWitness ==
  /\ flPc = "threw"
  /\ flCall.op = "transferContext"
  /\ flCall.inputFile = FILE_json
  /\ FILE_json \in DOMAIN flDisk
  /\ flReturn.errorType = "SyntaxError"
  /\ flReads = 1
  /\ flWrites = <<>>
  /\ CLI_outputFile \notin DOMAIN flDisk

\* ------------------------------------------------------------------------
\* Properties of interleaved calls on one ContextTransferAPI
\* (SpecInterleaved)
\* ------------------------------------------------------------------------
\* C23: whatever the interleaving of the calls entered on one API, a call
\* that has returned has the result the same call returns alone for the
\* same arguments and the same answers of the remote side, and no call
\* has changed the manager's config or the arguments of any call.
InterleavedCallsAreIndependent ==
  /\ icManagerConfig = ManagerConfig
  /\ \A c \in 1..Len(icCalls) :
       /\ icCalls[c].args = icCalls[c].given
       /\ icCalls[c].pc = "returned" =>
            icCalls[c].result =
              IF icCalls[c].op = "transfer"
              THEN Ok(SingleTransferResult(icCalls[c].given, icCalls[c].env))
              ELSE validateConversationFormat(icCalls[c].given)

\* Two different transfers have returned, the second entered while the
\* first was suspended and returned before the first went on to its
\* capability lookups; a validation was answered in between.
InterleavedCallsAreIndependentWitness ==
  /\ Len(icCalls) >= 2
  /\ icCalls[1].op = "transfer"
  /\ icCalls[1].given = CapabilityRequest
  /\ icCalls[1].pc = "returned"
  /\ icCalls[1].env.target = "answered"
  /\ icCalls[2].op = "transfer"
  /\ icCalls[2].given.targetModel = MODEL_MyModel
  /\ icCalls[2].overlapped
  /\ icCalls[2].pc = "returned"
  /\ icCalls[2].result.value.success

====
